---- MODULE Spec2Model ----
(***************************************************************************)
(* NeoSavage dice bot: the random die primitives (dice/regularDice.js),    *)
(* the Savage Worlds helpers (dice/savageWorldsDice.js) and the R2         *)
(* expression evaluator (r2Evaluator.js).                                  *)
(*                                                                         *)
(* Math.random() is modelled by a draw u in 0..RandRes-1 standing for the  *)
(* real number u/RandRes in [0,1).  The generated ANTLR parser is not part *)
(* of the sources, so the evaluator is modelled on parse trees: a context  *)
(* node is a record whose fields are the labels the visitor reads.         *)
(* A JavaScript null / absent optional is the empty sequence <<>>, a       *)
(* present value v is the one-element sequence <<v>>.                      *)
(***************************************************************************)
EXTENDS Integers, Sequences, FiniteSets, TLC

\* ----------------------------------------------------------------- bounds
RandRes == 2
MaxSides == 3
MaxAcesBound == 3

\* ------------------------------------------------------ program constants
DefaultMaxAces == 100

Null == <<>>
Some(v) == <<v>>
IsNull(o) == o = <<>>
Val(o) == o[1]

VARIABLES
  sides,      \* argument of rollAcingDie
  maxAces,    \* argument of rollAcingDie
  pc,         \* nested rollAcingDie: "start", "build", "unwind", "done"
  stack,      \* nested rollAcingDie: the dice of buildNestedRoll's frames, outermost first
  ret,        \* nested rollAcingDie: index of the frame that is returning
  fpc,        \* flat rollAcingDie: "loop", "done"
  rolls,      \* flat rollAcingDie: rolls
  total,      \* flat rollAcingDie: total
  aces,       \* flat rollAcingDie: aces
  call,       \* the pending call: the function and its arguments
  random,     \* the values Math.random() returns during the call, in order (then 0)
  returned,   \* Null before the call returns, then Some(return value)
  thrown,     \* Null unless the call threw, then Some(the Error)
  visitors,   \* concurrent evaluate calls: the R2EvaluatorVisitor of each call
  variables,  \* R2EvaluatorVisitor.variables when evaluate returned
  log,        \* history: the variable reads and writes of the call, in order
  tracker,    \* the InitiativeTracker object
  handler,    \* cmd_roll: its position and its locals
  interaction \* the Discord interaction: the responses issued on it, in order

acingVars == <<sides, maxAces, pc, stack, ret, fpc, rolls, total, aces>>
nestedVars == <<pc, stack, ret>>
flatVars == <<fpc, rolls, total, aces>>

evalVars == <<call, random, returned, thrown, visitors, variables, log>>

hostVars == <<tracker, handler, interaction>>

vars == <<acingVars, evalVars, hostVars>>

\* no tracker, no command
HostIdle ==
  /\ tracker = <<>>
  /\ handler = <<>>
  /\ interaction = <<>>

\* ------------------------------------------------------------- rollDie
\* Math.floor(Math.random() * sides) + 1 with Math.random() = u / RandRes
rollDieMutZeroBased(s, u) == (u * s) \div RandRes

rollDie(s, u) == ((u * s) \div RandRes) + 1

RandomDraws == 0 .. (RandRes - 1)

RECURSIVE SumSeq(_)
SumSeq(s) == IF s = <<>> THEN 0 ELSE s[1] + SumSeq(Tail(s))

\* ------------------------------------------- rollAcingDie, nested version
\* the die object created by one call of buildNestedRoll(currentRoll, acesLeft);
\* nextRoll is the index of the next frame's die, 0 for null
explodedMutNoBudget(s, currentRoll, acesLeft) == currentRoll = s

explodedTest(s, currentRoll, acesLeft) == currentRoll = s /\ acesLeft > 0

newDie(currentRoll, acesLeft) ==
  [value |-> currentRoll,
   exploded |-> explodedTest(sides, currentRoll, acesLeft),
   nextRoll |-> 0,
   total |-> currentRoll,
   acesLeft |-> acesLeft]

\* const firstRoll = rollDie(sides); buildNestedRoll(firstRoll, maxAces)
RollFirst ==
  /\ pc = "start"
  /\ \E u \in RandomDraws :
       stack' = <<newDie(rollDie(sides, u), maxAces)>>
  /\ pc' = "build"
  /\ UNCHANGED <<sides, maxAces, ret, flatVars, evalVars, hostVars>>

\* if (exploded) { nextValue = rollDie(sides); buildNestedRoll(nextValue, acesLeft - 1) }
nextBudgetMutKeep(acesLeft) == acesLeft

nextBudget(acesLeft) == acesLeft - 1

Explode ==
  /\ pc = "build"
  /\ stack[Len(stack)].exploded
  /\ \E u \in RandomDraws :
       stack' = Append(stack, newDie(rollDie(sides, u), nextBudget(stack[Len(stack)].acesLeft)))
  /\ UNCHANGED <<sides, maxAces, pc, ret, flatVars, evalVars, hostVars>>

\* the innermost call does not explode: return die
ReturnLeaf ==
  /\ pc = "build"
  /\ ~ stack[Len(stack)].exploded
  /\ pc' = "unwind"
  /\ ret' = Len(stack)
  /\ UNCHANGED <<sides, maxAces, stack, flatVars, evalVars, hostVars>>

\* die.nextRoll = <returned die>; die.total += die.nextRoll.total; return die
addNextTotalMutDrop(t, nt) == t

addNextTotal(t, nt) == t + nt

Unwind ==
  /\ pc = "unwind"
  /\ ret > 1
  /\ stack' = [stack EXCEPT ![ret - 1] =
                 [@ EXCEPT !.nextRoll = ret,
                           !.total = addNextTotal(@, stack[ret].total)]]
  /\ ret' = ret - 1
  /\ UNCHANGED <<sides, maxAces, pc, flatVars, evalVars, hostVars>>

\* the outermost buildNestedRoll returns to the caller of rollAcingDie
ReturnDie ==
  /\ pc = "unwind"
  /\ ret = 1
  /\ pc' = "done"
  /\ UNCHANGED <<sides, maxAces, stack, ret, flatVars, evalVars, hostVars>>

\* --------------------------------------------- rollAcingDie, flat version
\* one pass of: while (aces < maxAces) { roll; push; total += roll; if (roll < sides) break; aces++ }
FlatIterate ==
  /\ fpc = "loop"
  /\ aces < maxAces
  /\ \E u \in RandomDraws :
       LET roll == rollDie(sides, u) IN
         /\ rolls' = Append(rolls, roll)
         /\ total' = total + roll
         /\ IF roll < sides
              THEN fpc' = "done" /\ aces' = aces
              ELSE fpc' = "loop" /\ aces' = aces + 1
  /\ UNCHANGED <<sides, maxAces, nestedVars, evalVars, hostVars>>

\* the loop condition fails: return { total, rolls }
FlatReturn ==
  /\ fpc = "loop"
  /\ ~ (aces < maxAces)
  /\ fpc' = "done"
  /\ UNCHANGED <<sides, maxAces, nestedVars, rolls, total, aces, evalVars, hostVars>>

InitAcing ==
  /\ sides \in 1 .. MaxSides
  /\ maxAces \in 0 .. MaxAcesBound
  /\ pc = "start"
  /\ stack = <<>>
  /\ ret = 0
  /\ fpc = "loop"
  /\ rolls = <<>>
  /\ total = 0
  /\ aces = 0
  /\ call = [fn |-> "rollAcingDie"]
  /\ random = <<>>
  /\ returned = Null
  /\ thrown = Null
  /\ visitors = <<>>
  /\ variables = <<>>
  /\ log = <<>>
  /\ HostIdle

NextAcing ==
  \/ RollFirst
  \/ Explode
  \/ ReturnLeaf
  \/ Unwind
  \/ ReturnDie
  \/ FlatIterate
  \/ FlatReturn

SpecAcing == InitAcing /\ [][NextAcing]_vars

FairSpecAcing ==
  /\ SpecAcing
  /\ WF_vars(RollFirst \/ Explode \/ ReturnLeaf \/ Unwind \/ ReturnDie)
  /\ WF_vars(FlatIterate \/ FlatReturn)

\* ======================================================================
\* The evaluator and the dice helpers as functions of their arguments and
\* of the random source.  st = [variables, random, log] is what a visit
\* reads and changes: the visitor's variables Map, the remaining
\* Math.random() values and the history of variable accesses.
\* ======================================================================
NextRandom(st) == IF st.random = <<>> THEN 0 ELSE Head(st.random)

Consume(st) == [st EXCEPT !.random = IF @ = <<>> THEN <<>> ELSE Tail(@)]

\* function buildNestedRoll(currentRoll, acesLeft) of rollAcingDie(s, ...)
RECURSIVE buildNestedRoll(_, _, _, _)
buildNestedRoll(s, currentRoll, acesLeft, st) ==
  IF explodedTest(s, currentRoll, acesLeft)
    THEN LET nextValue == rollDie(s, NextRandom(st))
             sub == buildNestedRoll(s, nextValue, nextBudget(acesLeft), Consume(st))
         IN  [die |-> [value |-> currentRoll, exploded |-> TRUE,
                       nextRoll |-> Some(sub.die),
                       total |-> addNextTotal(currentRoll, sub.die.total)],
              st |-> sub.st]
    ELSE [die |-> [value |-> currentRoll, exploded |-> FALSE,
                   nextRoll |-> Null, total |-> currentRoll],
          st |-> st]

rollAcingDie(s, maxA, st) ==
  buildNestedRoll(s, rollDie(s, NextRandom(st)), maxA, Consume(st))

\* the flat rollAcingDie of src/dice: while (aces < maxAces) {...}; return {total, rolls}
RECURSIVE flatAcingLoop(_, _, _, _, _, _)
flatAcingLoop(s, maxA, acesSoFar, rollsSoFar, totalSoFar, st) ==
  IF acesSoFar < maxA
    THEN LET roll == rollDie(s, NextRandom(st)) IN
           IF roll < s
             THEN [die |-> [total |-> totalSoFar + roll, rolls |-> Append(rollsSoFar, roll)],
                   st |-> Consume(st)]
             ELSE flatAcingLoop(s, maxA, acesSoFar + 1, Append(rollsSoFar, roll),
                                totalSoFar + roll, Consume(st))
    ELSE [die |-> [total |-> totalSoFar, rolls |-> rollsSoFar], st |-> st]

flatRollAcingDie(s, maxA, st) == flatAcingLoop(s, maxA, 0, <<>>, 0, st)

Max(a, b) == IF a >= b THEN a ELSE b

Min(a, b) == IF a <= b THEN a ELSE b

\* Math.floor(a / b) for b > 0
floorDivMutCeil(a, b) == (a + b - 1) \div b

floorDiv(a, b) == a \div b

\* ------------------------------------------------- savageWorldsDice.js
usedDieOfMutStrict(traitTotal, wildTotal) == IF traitTotal > wildTotal THEN "trait" ELSE "wild"

usedDieOf(traitTotal, wildTotal) == IF traitTotal >= wildTotal THEN "trait" ELSE "wild"

rollWithWildDie(traitDie, modifier, wildDie, st) ==
  LET trait == flatRollAcingDie(traitDie, DefaultMaxAces, st)
      wild == flatRollAcingDie(wildDie, DefaultMaxAces, trait.st)
      traitTotal == trait.die.total + modifier
      wildTotal == wild.die.total + modifier
  IN  [result |-> [total |-> Max(traitTotal, wildTotal),
                   traitRoll |-> trait.die,
                   wildRoll |-> wild.die,
                   modifier |-> modifier,
                   usedDie |-> usedDieOf(traitTotal, wildTotal),
                   traitTotal |-> traitTotal,
                   wildTotal |-> wildTotal],
       st |-> wild.st]

successOfMutStrict(margin) == margin > 0

successOf(margin) == margin >= 0

calculateRaises(roll, targetNumber, raiseInterval) ==
  LET margin == roll - targetNumber
      success == successOf(margin)
      raises == IF success THEN floorDiv(margin, raiseInterval) ELSE 0
  IN  [success |-> success, raises |-> raises, margin |-> margin]

\* ------------------------------------------------ result classes
BaseRollResult(value) == [rollType |-> "none", value |-> value]

GenericRollResult(value, dice, modifier, droppedDice, keepOperation) ==
  [rollType |-> "generic", value |-> value, dice |-> dice, modifier |-> modifier,
   droppedDice |-> droppedDice, keepOperation |-> keepOperation,
   targetNumber |-> Null, raiseInterval |-> Null, raises |-> Null]

SavageWildRollResult(value, traitDie, wildDie, usedDie, modifier, targetNumber, raiseInterval, raises) ==
  [rollType |-> "savageWild", value |-> value, traitDie |-> traitDie, wildDie |-> wildDie,
   usedDie |-> usedDie, modifier |-> modifier, targetNumber |-> targetNumber,
   raiseInterval |-> raiseInterval, raises |-> raises]

MultipleRollsResult(value, rs) == [rollType |-> "multiple", value |-> value, rolls |-> rs]

SimpleValueResult(value) == [rollType |-> "simple", value |-> value]

SuccessFailRollResult(value, dice, successes, failures, successTarget, failTarget) ==
  [rollType |-> "successFail", value |-> value, dice |-> dice, successes |-> successes,
   failures |-> failures, successTarget |-> successTarget, failTarget |-> failTarget]

RECURSIVE SumTotals(_)
SumTotals(dice) == IF dice = <<>> THEN 0 ELSE dice[1].total + SumTotals(Tail(dice))

RECURSIVE SumValues(_)
SumValues(rs) == IF rs = <<>> THEN 0 ELSE rs[1].value + SumValues(Tail(rs))

\* ------------------------------------------------ r2Evaluator.js
DefaultTargetNumber == 4
DefaultRaiseInterval == 4
DefaultWildDie == 6
PercentSides == 100

VarNames == {"@x", "@y"}

\* this.variables = new Map()
emptyMap == [n \in VarNames |-> Null]

mapSetMutNoStore(m, name, value) == m

mapSet(m, name, value) == [m EXCEPT ![name] = Some(value)]

\* this.variables.get(varName) || 0
mapGetOrZero(m, name) == IF IsNull(m[name]) THEN 0 ELSE Val(m[name])

LogEvent(op, name, value) == [op |-> op, name |-> name, value |-> value]

Logged(st, op, name, value) == [st EXCEPT !.log = Append(@, LogEvent(op, name, value))]

\* String.prototype.toLowerCase on the keep operator tokens
toLowerCase(t) ==
  CASE t = "K" -> "k"
    [] t = "KL" -> "kl"
    [] t = "ADV" -> "adv"
    [] t = "DIS" -> "dis"
    [] OTHER -> t

plainDie(value) == [value |-> value, exploded |-> FALSE, nextRoll |-> Null, total |-> value]

\* for (let i = 0; i < count; i++) { acing ? rollAcingDie(sides) : rollDie(sides) }
RECURSIVE rollDice(_, _, _, _, _)
rollDice(i, count, s, acing, acc) ==
  IF i < count
    THEN IF acing
           THEN LET r == rollAcingDie(s, DefaultMaxAces, acc.st) IN
                  rollDice(i + 1, count, s, acing,
                           [dice |-> Append(acc.dice, r.die), st |-> r.st])
           ELSE rollDice(i + 1, count, s, acing,
                         [dice |-> Append(acc.dice, plainDie(rollDie(s, NextRandom(acc.st)))),
                          st |-> Consume(acc.st)])
    ELSE acc

\* [...dice].sort(comparator): a stable sort; a stays before b when the
\* comparator does not put b first
staysBeforeMutSwapped(a, b, highest) == IF highest THEN a.total <= b.total ELSE a.total >= b.total

staysBefore(a, b, highest) == IF highest THEN a.total >= b.total ELSE a.total <= b.total

RECURSIVE insertDie(_, _, _)
insertDie(sorted, d, highest) ==
  IF sorted = <<>>
    THEN <<d>>
    ELSE IF staysBefore(Head(sorted), d, highest)
           THEN <<Head(sorted)>> \o insertDie(Tail(sorted), d, highest)
           ELSE <<d>> \o sorted

RECURSIVE sortDice(_, _, _)
sortDice(dice, highest, sorted) ==
  IF dice = <<>> THEN sorted
  ELSE sortDice(Tail(dice), highest, insertDie(sorted, Head(dice), highest))

\* {...die, kept: k}
markKept(die, k) ==
  [value |-> die.value, exploded |-> die.exploded, nextRoll |-> die.nextRoll,
   total |-> die.total, kept |-> k]

\* Array.prototype.slice(0, n) and slice(n) for n >= 0
sliceTo(s, n) == SubSeq(s, 1, Min(n, Len(s)))

sliceFrom(s, n) == SubSeq(s, Min(n, Len(s)) + 1, Len(s))

\* the target number / raise interval read from a targetNumberAndRaiseStep context
targetNumberOf(tnCtx) ==
  IF ~ IsNull(tnCtx.tgtn) THEN Val(tnCtx.tgtn)
  ELSE IF ~ IsNull(tnCtx.tnr) THEN Val(tnCtx.tnr)
  ELSE IF ~ IsNull(tnCtx.tt) THEN Val(tnCtx.tt)
  ELSE DefaultTargetNumber

raiseIntervalOf(tnCtx) ==
  IF ~ IsNull(tnCtx.tnr) THEN Val(tnCtx.tnr)
  ELSE IF ~ IsNull(tnCtx.tr) THEN Val(tnCtx.tr)
  ELSE DefaultRaiseInterval

raiseOutcome(value, targetNumber, raiseInterval) ==
  LET margin == value - targetNumber
      success == margin >= 0
      raiseCount == IF success THEN floorDiv(margin, raiseInterval) ELSE 0
  IN  [success |-> success, raises |-> raiseCount, margin |-> margin,
       description |-> IF success THEN "Success" ELSE "Failure"]

keepHighest(op) == op = "k" \/ op = "adv"

keepOperationOf(op) ==
  CASE op = "k" -> "highest"
    [] op = "adv" -> "advantage"
    [] op = "kl" -> "lowest"
    [] op = "dis" -> "disadvantage"

defaultKeepCountMutAll(dice) == Len(dice)

defaultKeepCount(dice) == 1

applyGenericSuffix(dice, suffix) ==
  CASE suffix.kind = "RollAndKeepSuffix" ->
         LET op == toLowerCase(suffix.op)
             keepCount == IF IsNull(suffix.n) THEN defaultKeepCount(dice) ELSE Val(suffix.n)
             sorted == sortDice(dice, keepHighest(op), <<>>)
             kept == sliceTo(sorted, keepCount)
             dropped == sliceFrom(sorted, keepCount)
             keptDice == [i \in 1 .. Len(kept) |-> markKept(kept[i], TRUE)]
             droppedDice == [i \in 1 .. Len(dropped) |-> markKept(dropped[i], FALSE)]
         IN  GenericRollResult(SumTotals(keptDice), keptDice \o droppedDice, Null,
                               droppedDice, Some(keepOperationOf(op)))
    [] suffix.kind \in {"SuccessOrFailSuffix1", "SuccessOrFailSuffix2"} ->
         LET successTarget == suffix.sn
             failTarget == suffix.fn
             successes == Cardinality({i \in 1 .. Len(dice) : dice[i].total >= successTarget})
             failures == IF ~ IsNull(failTarget) /\ Val(failTarget) # 0
                           THEN Cardinality({i \in 1 .. Len(dice) : dice[i].total <= Val(failTarget)})
                           ELSE 0
         IN  SuccessFailRollResult(successes, dice, successes, failures, successTarget, failTarget)
    [] suffix.kind = "TargetNumberAndRaiseStepSuffix" ->
         LET sum == SumTotals(dice)
             tnCtx == suffix.targetNumberAndRaiseStep
             targetNumber == targetNumberOf(tnCtx)
             raiseInterval == raiseIntervalOf(tnCtx)
         IN  [GenericRollResult(sum, dice, Null, <<>>, Null) EXCEPT
                !.targetNumber = Some(targetNumber),
                !.raiseInterval = Some(raiseInterval),
                !.raises = Some(raiseOutcome(sum, targetNumber, raiseInterval))]
    [] OTHER -> GenericRollResult(SumTotals(dice), dice, Null, <<>>, Null)

visitGenericRollExpr(ctx, st) ==
  LET count == IF IsNull(ctx.t1) THEN 1 ELSE Val(ctx.t1)
      s == IF ctx.t2.percent THEN PercentSides ELSE ctx.t2.n
      rolled == rollDice(0, count, s, ctx.excl, [dice |-> <<>>, st |-> st])
  IN  [result |-> IF ~ IsNull(ctx.suffix)
                    THEN applyGenericSuffix(rolled.dice, Val(ctx.suffix))
                    ELSE GenericRollResult(SumTotals(rolled.dice), rolled.dice, Null, <<>>, Null),
       st |-> rolled.st]

effectiveTNMutNull(targetNumber) == targetNumber

effectiveTN(targetNumber) == IF ~ IsNull(targetNumber) THEN targetNumber ELSE Some(DefaultTargetNumber)

effectiveRI(raiseInterval) == IF ~ IsNull(raiseInterval) THEN raiseInterval ELSE Some(DefaultRaiseInterval)

\* one trait die and one wild die, the better of the two
savageWildRoll(traitDieSize, wildDieSize, tn, ri, st) ==
  LET trait == rollAcingDie(traitDieSize, DefaultMaxAces, st)
      wild == rollAcingDie(wildDieSize, DefaultMaxAces, trait.st)
      usedDie == usedDieOf(trait.die.total, wild.die.total)
      baseValue == Max(trait.die.total, wild.die.total)
      raises == IF IsNull(tn) \/ IsNull(ri) THEN Null
                ELSE Some(raiseOutcome(baseValue, Val(tn), Val(ri)))
  IN  [result |-> SavageWildRollResult(baseValue, trait.die, wild.die, usedDie, 0, tn, ri, raises),
       st |-> wild.st]

RECURSIVE savageWildRolls(_, _, _, _, _, _, _)
savageWildRolls(i, count, traitDieSize, wildDieSize, tn, ri, acc) ==
  IF i < count
    THEN LET r == savageWildRoll(traitDieSize, wildDieSize, tn, ri, acc.st) IN
           savageWildRolls(i + 1, count, traitDieSize, wildDieSize, tn, ri,
                           [rolls |-> Append(acc.rolls, r.result), st |-> r.st])
    ELSE acc

visitSavageWorldsRollExpr(ctx, st) ==
  LET count == IF IsNull(ctx.t1) THEN 1 ELSE Val(ctx.t1)
      traitDieSize == ctx.t2
      wildDieSize == IF IsNull(ctx.t3) THEN DefaultWildDie ELSE Val(ctx.t3)
      tnCtx == ctx.targetNumberAndRaiseStep
      targetNumber == IF IsNull(tnCtx) THEN Null ELSE Some(targetNumberOf(Val(tnCtx)))
      raiseInterval == IF IsNull(tnCtx) THEN Null ELSE Some(raiseIntervalOf(Val(tnCtx)))
  IN  IF count = 1
        THEN savageWildRoll(traitDieSize, wildDieSize, effectiveTN(targetNumber),
                            effectiveRI(raiseInterval), st)
        ELSE LET all == savageWildRolls(0, count, traitDieSize, wildDieSize,
                                        effectiveTN(targetNumber), effectiveRI(raiseInterval),
                                        [rolls |-> <<>>, st |-> st])
             IN  [result |-> MultipleRollsResult(SumValues(all.rolls), all.rolls), st |-> all.st]

newModifier(left, modifierValue) == modifierValue

\* the result of visitInfixExpr2 from its evaluated operands
infixExpr2Result(left, op, right) ==
  LET modifierValue == IF op = "+" THEN right.value ELSE 0 - right.value
      result == left.value + modifierValue
  IN  IF left.rollType = "generic"
        THEN GenericRollResult(result, left.dice, Some(newModifier(left, modifierValue)),
                               left.droppedDice, left.keepOperation)
      ELSE IF left.rollType = "savageWild"
        THEN LET raises == IF ~ IsNull(left.raises) /\ ~ IsNull(left.targetNumber)
                             THEN Some(raiseOutcome(result, Val(left.targetNumber),
                                                    Val(left.raiseInterval)))
                             ELSE left.raises
             IN  SavageWildRollResult(result, left.traitDie, left.wildDie, left.usedDie,
                                      newModifier(left, modifierValue), left.targetNumber,
                                      left.raiseInterval, raises)
      ELSE SimpleValueResult(result)

\* ------------------------------------------------ JavaScript numbers
\* a number of the evaluator is an integer or one of the non-finite values
NaN == "NaN"

Infinity == "Infinity"

NegativeInfinity == "-Infinity"

Abs(a) == IF a < 0 THEN 0 - a ELSE a

\* the quotient rounded toward zero
truncatedQuotient(a, b) ==
  IF (a < 0) = (b < 0) THEN Abs(a) \div Abs(b) ELSE 0 - (Abs(a) \div Abs(b))

\* a / b of two integers with b = 0
quotientByZero(a) == IF a = 0 THEN NaN ELSE IF a > 0 THEN Infinity ELSE NegativeInfinity

mathFloorOfQuotientMutTrunc(a, b) ==
  IF b = 0 THEN quotientByZero(a) ELSE truncatedQuotient(a, b)

\* Math.floor(a / b)
mathFloorOfQuotient(a, b) ==
  IF b = 0 THEN quotientByZero(a)
  ELSE IF b > 0 THEN a \div b
  ELSE (0 - a) \div (0 - b)

\* a % b: the remainder has the sign of the dividend
remainder(a, b) == IF b = 0 THEN NaN ELSE a - b * truncatedQuotient(a, b)

\* the result of visitInfixExpr1 from its evaluated operands
infixExpr1Result(left, op, right) ==
  LET result == CASE op = "*" -> left.value * right.value
                  [] op = "/" -> mathFloorOfQuotient(left.value, right.value)
                  [] op = "%" -> remainder(left.value, right.value)
  IN  BaseRollResult(result)

iterationStateMutFresh(st) == [st EXCEPT !.variables = emptyMap]

iterationState(st) == st

appendRollMutPrepend(rs, r) == <<r>> \o rs

appendRoll(rs, r) == Append(rs, r)

RECURSIVE Visit(_, _)

\* for (let i = 0; i < times; i++) { rolls.push(this.visit(ctx.e)) }
RECURSIVE timesLoop(_, _, _, _)
timesLoop(e, i, times, acc) ==
  IF i < times
    THEN LET r == Visit(e, Logged(iterationState(acc.st), "iteration", "", i)) IN
           timesLoop(e, i + 1, times, [rolls |-> appendRoll(acc.rolls, r.result), st |-> r.st])
    ELSE acc

visitRollTimesStmt(ctx, st) ==
  LET all == timesLoop(ctx.e, 0, ctx.n, [rolls |-> <<>>, st |-> st]) IN
    [result |-> MultipleRollsResult(SumValues(all.rolls), all.rolls), st |-> all.st]

\* statements.map(stmt => this.visit(stmt))
RECURSIVE visitStatements(_, _)
visitStatements(statements, acc) ==
  IF statements = <<>> THEN acc
  ELSE LET r == Visit(Head(statements), acc.st) IN
         visitStatements(Tail(statements), [results |-> Append(acc.results, r.result), st |-> r.st])

\* the value of a command from the results of its statements
commandResult(results) ==
  IF Len(results) = 1 THEN results[1] ELSE BaseRollResult(SumValues(results))

visitCommandElement(ctx, st) ==
  LET all == visitStatements(ctx.statements, [results |-> <<>>, st |-> st]) IN
    [result |-> commandResult(all.results), st |-> all.st]

visitInfixExpr1(ctx, st) ==
  LET left == Visit(ctx.e1, st)
      right == Visit(ctx.e2, left.st)
  IN  [result |-> infixExpr1Result(left.result, ctx.op, right.result), st |-> right.st]

visitPrefixExpr(ctx, st) ==
  LET expr == Visit(ctx.e1, st) IN
    [result |-> BaseRollResult(IF ctx.op = "-" THEN 0 - expr.result.value ELSE expr.result.value),
     st |-> expr.st]

visitInfixExpr2(ctx, st) ==
  LET left == Visit(ctx.e1, st)
      right == Visit(ctx.e2, left.st)
  IN  [result |-> infixExpr2Result(left.result, ctx.op, right.result), st |-> right.st]

visitAssignExpr(ctx, st) ==
  LET r == Visit(ctx.e1, st) IN
    [result |-> r.result,
     st |-> Logged([r.st EXCEPT !.variables = mapSet(@, ctx.v, r.result.value)],
                   "set", ctx.v, r.result.value)]

visitVarTerm(ctx, st) ==
  LET value == mapGetOrZero(st.variables, ctx.v) IN
    [result |-> BaseRollResult(value), st |-> Logged(st, "get", ctx.v, value)]

visitIntTerm(ctx, st) == [result |-> BaseRollResult(ctx.i), st |-> st]

clampMutNoMin(value, min, max) ==
  IF ~ IsNull(max) /\ value > Val(max) THEN Val(max) ELSE value

\* if (min !== null && bounded < min) bounded = min; if (max !== null && bounded > max) bounded = max
clamp(value, min, max) ==
  LET bounded == IF ~ IsNull(min) /\ value < Val(min) THEN Val(min) ELSE value IN
    IF ~ IsNull(max) /\ bounded > Val(max) THEN Val(max) ELSE bounded

\* e2 and e3 are the optional bound expressions
visitBoundedExpr(ctx, st) ==
  LET result == Visit(ctx.e1, st)
      minR == IF ~ IsNull(ctx.e2) THEN Visit(Val(ctx.e2), result.st)
              ELSE [result |-> BaseRollResult(0), st |-> result.st]
      maxR == IF ~ IsNull(ctx.e3) THEN Visit(Val(ctx.e3), minR.st)
              ELSE [result |-> BaseRollResult(0), st |-> minR.st]
      min == IF ~ IsNull(ctx.e2) THEN Some(minR.result.value) ELSE Null
      max == IF ~ IsNull(ctx.e3) THEN Some(maxR.result.value) ELSE Null
  IN  [result |-> BaseRollResult(clamp(result.result.value, min, max)), st |-> maxR.st]

\* min + Math.floor(Math.random() * (max - min + 1)), min = g0 and max = g1 as written
visitGygaxRangeRollExpr(ctx, st) ==
  LET min == ctx.g0
      max == ctx.g1
      u == NextRandom(st)
  IN  [result |-> BaseRollResult(min + ((u * (max - min + 1)) \div RandRes)),
       st |-> Consume(st)]

Visit(ctx, st) ==
  CASE ctx.kind = "commandElement" -> visitCommandElement(ctx, st)
    [] ctx.kind = "RollOnceStmt" -> Visit(ctx.e, st)
    [] ctx.kind = "RollTimesStmt" -> visitRollTimesStmt(ctx, st)
    [] ctx.kind = "GenericRollExpr" -> visitGenericRollExpr(ctx, st)
    [] ctx.kind = "SavageWorldsRollExpr" -> visitSavageWorldsRollExpr(ctx, st)
    [] ctx.kind = "InfixExpr1" -> visitInfixExpr1(ctx, st)
    [] ctx.kind = "InfixExpr2" -> visitInfixExpr2(ctx, st)
    [] ctx.kind = "PrefixExpr" -> visitPrefixExpr(ctx, st)
    [] ctx.kind = "AssignExpr" -> visitAssignExpr(ctx, st)
    [] ctx.kind = "VarTerm" -> visitVarTerm(ctx, st)
    [] ctx.kind = "IntTerm" -> visitIntTerm(ctx, st)
    [] ctx.kind = "BoundedExpr" -> visitBoundedExpr(ctx, st)
    [] ctx.kind = "GygaxRangeRollExpr" -> visitGygaxRangeRollExpr(ctx, st)
    [] ctx.kind = "ExprTerm" -> Visit(ctx.e, st)

\* const evaluator = new R2EvaluatorVisitor(); return evaluator.visit(tree)
evaluateExpression(tree, tape) ==
  Visit(tree, [variables |-> emptyMap, random |-> tape, log |-> <<>>])

\* ------------------------------------------------ parse trees
IntTerm(i) == [kind |-> "IntTerm", i |-> i]

VarTerm(v) == [kind |-> "VarTerm", v |-> v]

ExprTerm(e) == [kind |-> "ExprTerm", e |-> e]

\* genericRoll: t1 = count, t2 = die facets (a number or '%'), excl = '!'
GenericRollExpr(t1, t2, excl, suffix) ==
  [kind |-> "GenericRollExpr", t1 |-> t1, t2 |-> t2, excl |-> excl, suffix |-> suffix]

Facets(n) == [percent |-> FALSE, n |-> n]

PercentFacets == [percent |-> TRUE, n |-> 0]

RollAndKeepSuffix(op, n) == [kind |-> "RollAndKeepSuffix", op |-> op, n |-> n]

TargetNumberAndRaiseStep(tt, tr, tnr, tgtn) == [tt |-> tt, tr |-> tr, tnr |-> tnr, tgtn |-> tgtn]

TargetNumberAndRaiseStepSuffix(tnCtx) ==
  [kind |-> "TargetNumberAndRaiseStepSuffix", targetNumberAndRaiseStep |-> tnCtx]

\* savageWorldsRoll: t1 = count, t2 = trait die, t3 = wild die
SavageWorldsRollExpr(t1, t2, t3, tnCtx) ==
  [kind |-> "SavageWorldsRollExpr", t1 |-> t1, t2 |-> t2, t3 |-> t3,
   targetNumberAndRaiseStep |-> tnCtx]

InfixExpr1(e1, op, e2) == [kind |-> "InfixExpr1", e1 |-> e1, op |-> op, e2 |-> e2]

InfixExpr2(e1, op, e2) == [kind |-> "InfixExpr2", e1 |-> e1, op |-> op, e2 |-> e2]

PrefixExpr(op, e1) == [kind |-> "PrefixExpr", op |-> op, e1 |-> e1]

AssignExpr(v, e1) == [kind |-> "AssignExpr", v |-> v, e1 |-> e1]

BoundedExpr(e1, e2, e3) == [kind |-> "BoundedExpr", e1 |-> e1, e2 |-> e2, e3 |-> e3]

GygaxRangeRollExpr(g0, g1) == [kind |-> "GygaxRangeRollExpr", g0 |-> g0, g1 |-> g1]

RollOnceStmt(e) == [kind |-> "RollOnceStmt", e |-> e]

RollTimesStmt(n, e) == [kind |-> "RollTimesStmt", n |-> n, e |-> e]

CommandElement(statements) == [kind |-> "commandElement", statements |-> statements]

\* ------------------------------------------------ bounded inputs
TapeLen == 3
MaxCount == 3
MaxTimes == 3
MaxRoll == 12
MaxTarget == 5
MaxInterval == 4

Tapes == [1 .. TapeLen -> RandomDraws]

KeepOps == {"k", "kl", "adv", "dis", "ADV"}

OptCounts == {Null} \cup {Some(c) : c \in 2 .. MaxCount}

KeepSuffixes == {RollAndKeepSuffix(op, n) : op \in KeepOps, n \in {Null} \cup {Some(k) : k \in 0 .. MaxCount}}

TnContexts ==
  { TargetNumberAndRaiseStep(Some(2), Null, Null, Null),
    TargetNumberAndRaiseStep(Null, Some(1), Null, Null),
    TargetNumberAndRaiseStep(Some(5), Some(2), Null, Null),
    TargetNumberAndRaiseStep(Null, Null, Some(3), Null),
    TargetNumberAndRaiseStep(Null, Null, Null, Some(6)) }

KeepRolls ==
  {GenericRollExpr(t1, Facets(2), excl, Some(sfx)) :
     t1 \in OptCounts, excl \in BOOLEAN, sfx \in KeepSuffixes}

PlainRolls ==
  {GenericRollExpr(t1, t2, excl, Null) :
     t1 \in OptCounts, t2 \in {Facets(2), Facets(3), PercentFacets}, excl \in BOOLEAN}
  \cup {GenericRollExpr(t1, Facets(1), FALSE, Null) : t1 \in OptCounts}
  \cup
  {GenericRollExpr(Some(2), Facets(2), excl, Some(TargetNumberAndRaiseStepSuffix(tn))) :
     excl \in BOOLEAN, tn \in TnContexts}

SavageSingles ==
  {SavageWorldsRollExpr(Null, t2, t3, tn) :
     t2 \in {2, 3}, t3 \in {Null, Some(2)}, tn \in {Null} \cup {Some(c) : c \in TnContexts}}

SavageMultiples ==
  {SavageWorldsRollExpr(Some(c), 2, Null, tn) :
     c \in 0 .. 2, tn \in {Null, Some(TargetNumberAndRaiseStep(Some(5), Some(2), Null, Null))}}

\* a roll followed by zero, one or two +/- terms
OneModifier(base) == {InfixExpr2(base, op, IntTerm(m)) : op \in {"+", "-"}, m \in {1, 3}}

TwoModifiers(base) ==
  {InfixExpr2(e, "+", IntTerm(2)) : e \in OneModifier(base)}
  \cup {InfixExpr2(ExprTerm(e), "-", IntTerm(1)) : e \in OneModifier(base)}

Modified(bases) ==
  bases \cup UNION {OneModifier(b) : b \in bases} \cup UNION {TwoModifiers(b) : b \in bases}

LoopBodies ==
  { GenericRollExpr(Some(2), Facets(3), FALSE, Null),
    GenericRollExpr(Null, Facets(2), TRUE, Null),
    InfixExpr2(GenericRollExpr(Some(2), Facets(3), FALSE, Null), "+", IntTerm(2)),
    GenericRollExpr(Some(2), Facets(2), FALSE, Some(RollAndKeepSuffix("k", Some(1)))),
    SavageWorldsRollExpr(Null, 2, Null, Null),
    AssignExpr("@x", InfixExpr2(VarTerm("@x"), "+", GenericRollExpr(Null, Facets(2), FALSE, Null))),
    AssignExpr("@x", InfixExpr2(VarTerm("@x"), "+", IntTerm(1))),
    InfixExpr2(VarTerm("@y"), "+", AssignExpr("@y", GenericRollExpr(Null, Facets(3), FALSE, Null))),
    InfixExpr2(AssignExpr("@x", InfixExpr2(VarTerm("@y"), "+", IntTerm(2))), "+",
               AssignExpr("@y", InfixExpr2(VarTerm("@x"), "+", IntTerm(1)))) }

Statements ==
  {RollOnceStmt(e) : e \in Modified(SavageSingles) \cup SavageMultiples
                            \cup KeepRolls \cup Modified(PlainRolls)}
  \cup {RollTimesStmt(n, e) : n \in 0 .. MaxTimes, e \in LoopBodies}

Expressions == {CommandElement(<<s>>) : s \in Statements}

EvaluateCalls == {[fn |-> "evaluateExpression", expression |-> e] : e \in Expressions}

CalculateRaisesCalls ==
  {[fn |-> "calculateRaises", roll |-> r, targetNumber |-> t, raiseInterval |-> i] :
     r \in (0 - 2) .. MaxRoll, t \in 0 .. MaxTarget, i \in 1 .. MaxInterval}

RollWithWildDieCalls ==
  {[fn |-> "rollWithWildDie", traitDie |-> t, modifier |-> m, wildDie |-> w] :
     t \in {2, 3}, m \in {0 - 1, 0, 2}, w \in {2, DefaultWildDie}}

\* ------------------------------------------------ the calls as actions
Evaluate ==
  /\ call.fn = "evaluateExpression"
  /\ IsNull(returned)
  /\ LET r == evaluateExpression(call.expression, random) IN
       /\ returned' = Some(r.result)
       /\ variables' = r.st.variables
       /\ log' = r.st.log
  /\ UNCHANGED <<call, random, thrown, visitors, acingVars, hostVars>>

CalculateRaises ==
  /\ call.fn = "calculateRaises"
  /\ IsNull(returned)
  /\ returned' = Some(calculateRaises(call.roll, call.targetNumber, call.raiseInterval))
  /\ UNCHANGED <<call, random, thrown, visitors, variables, log, acingVars, hostVars>>

RollWithWildDie ==
  /\ call.fn = "rollWithWildDie"
  /\ IsNull(returned)
  /\ LET r == rollWithWildDie(call.traitDie, call.modifier, call.wildDie,
                              [variables |-> emptyMap, random |-> random, log |-> <<>>]) IN
       returned' = Some(r.result)
  /\ UNCHANGED <<call, random, thrown, visitors, variables, log, acingVars, hostVars>>

InitEval ==
  /\ \/ call \in EvaluateCalls /\ random \in Tapes
     \/ call \in RollWithWildDieCalls /\ random \in Tapes
     \/ call \in CalculateRaisesCalls /\ random = <<>>
  /\ returned = Null
  /\ thrown = Null
  /\ visitors = <<>>
  /\ variables = emptyMap
  /\ log = <<>>
  /\ sides = 1
  /\ maxAces = 0
  /\ pc = "done"
  /\ stack = <<>>
  /\ ret = 0
  /\ fpc = "done"
  /\ rolls = <<>>
  /\ total = 0
  /\ aces = 0
  /\ HostIdle

NextEval ==
  \/ Evaluate
  \/ CalculateRaises
  \/ RollWithWildDie

SpecEval == InitEval /\ [][NextEval]_vars

\* ------------------------------------------------ arithmetic, variables, rollDie
MaxOperand == 4
MinSides == 0 - MaxSides

\* the operands of * / %: literals, negated literals, differences, a die, a variable
Operands ==
  {IntTerm(n) : n \in 0 .. MaxOperand}
  \cup {ExprTerm(PrefixExpr("-", IntTerm(n))) : n \in 1 .. MaxOperand}
  \cup { ExprTerm(InfixExpr2(IntTerm(1), "-", IntTerm(1))),
         GenericRollExpr(Null, Facets(3), FALSE, Null),
         VarTerm("@x") }

ArithmeticStatements ==
  {RollOnceStmt(InfixExpr1(a, op, b)) : a \in Operands, b \in Operands, op \in {"*", "/", "%"}}

\* @v := E; @v*k
AssignedExprs ==
  { InfixExpr2(GenericRollExpr(Some(2), Facets(3), FALSE, Null), "+", IntTerm(1)),
    GenericRollExpr(Null, Facets(2), TRUE, Null),
    SavageWorldsRollExpr(Null, 2, Null, Null),
    IntTerm(3) }

AssignThenScale ==
  {CommandElement(<<RollOnceStmt(AssignExpr(v, e)),
                    RollOnceStmt(InfixExpr1(VarTerm(v), "*", IntTerm(k)))>>) :
     v \in VarNames, e \in AssignedExprs, k \in 0 .. MaxOperand}

\* dice of every face count, also below one
AnyDieRolls ==
  {RollOnceStmt(GenericRollExpr(t1, Facets(n), FALSE, Null)) :
     t1 \in {Null, Some(2)}, n \in 0 .. MaxSides}

\* A--B for both orders of A and B
GygaxStatements ==
  {RollOnceStmt(GygaxRangeRollExpr(a, b)) : a \in 1 .. MaxOperand, b \in 1 .. MaxOperand}

ArithmeticExpressions ==
  {CommandElement(<<stmt>>) : stmt \in ArithmeticStatements \cup AnyDieRolls \cup GygaxStatements}
  \cup AssignThenScale

ArithmeticCalls == {[fn |-> "evaluateExpression", expression |-> e] : e \in ArithmeticExpressions}

RollDieCalls == {[fn |-> "rollDie", sides |-> n] : n \in MinSides .. MaxSides}

RollDie ==
  /\ call.fn = "rollDie"
  /\ IsNull(returned)
  /\ returned' = Some(rollDie(call.sides, NextRandom([random |-> random])))
  /\ UNCHANGED <<call, random, thrown, visitors, variables, log, acingVars, hostVars>>

InitArith ==
  /\ \/ call \in ArithmeticCalls /\ random \in Tapes
     \/ call \in RollDieCalls /\ random \in Tapes
  /\ returned = Null
  /\ thrown = Null
  /\ visitors = <<>>
  /\ variables = emptyMap
  /\ log = <<>>
  /\ sides = 1
  /\ maxAces = 0
  /\ pc = "done"
  /\ stack = <<>>
  /\ ret = 0
  /\ fpc = "done"
  /\ rolls = <<>>
  /\ total = 0
  /\ aces = 0
  /\ HostIdle

NextArith ==
  \/ Evaluate
  \/ RollDie

SpecArith == InitArith /\ [][NextArith]_vars


\* ------------------------------------------------ claims on rollAcingDie
\* the chain of the returned nested die: die i's nextRoll is die i+1, the last has none
ChainIsWhole ==
  \A i \in 1 .. Len(stack) :
    stack[i].nextRoll = (IF i < Len(stack) THEN i + 1 ELSE 0)

NextTotal(i) == IF stack[i].nextRoll = 0 THEN 0 ELSE stack[stack[i].nextRoll].total

Explosions == Cardinality({i \in 1 .. Len(stack) : stack[i].exploded})

\* C1: the returned die's total is the sum of the values of all dice of its
\* chain, and at every link total = value + the next roll's total (0 without
\* a next roll); the flat version's total is the sum of its rolls.
C1_TotalIsChainSum ==
  /\ pc = "done" =>
       /\ ChainIsWhole
       /\ stack[1].total = SumSeq([i \in 1 .. Len(stack) |-> stack[i].value])
       /\ \A i \in 1 .. Len(stack) : stack[i].total = stack[i].value + NextTotal(i)
  /\ fpc = "done" => total = SumSeq(rolls)

C1_Witness ==
  /\ pc = "done" /\ Len(stack) >= 3 /\ stack[1].total > stack[1].value
  /\ fpc = "done" /\ Len(rolls) >= 2

\* C2: a die of the chain is exploded iff its value equals sides and fewer
\* than maxAces explosions came before it (the budget was not exhausted).
C2_ExplodedIff ==
  \A i \in 1 .. Len(stack) :
    stack[i].exploded <=> (stack[i].value = sides /\ (i - 1) < maxAces)

C2_Witness ==
  /\ pc = "done" /\ maxAces >= 1 /\ Len(stack) = maxAces + 1
  /\ stack[1].exploded
  /\ stack[Len(stack)].value = sides /\ ~ stack[Len(stack)].exploded

\* C3: rollAcingDie terminates for every sides >= 1 (sides = 1 included) and
\* every sequence of faces, and the chain never has more than maxAces
\* explosions.
C3_TerminatesBounded ==
  /\ <>[](pc = "done" /\ fpc = "done")
  /\ [](Explosions <= maxAces /\ Len(stack) <= maxAces + 1 /\ aces <= maxAces)

C3_Witness ==
  /\ sides = 1 /\ maxAces >= 2
  /\ pc = "done" /\ Explosions = maxAces
  /\ fpc = "done" /\ aces = maxAces

\* ------------------------------------------------ claims on the evaluator
EvalDone == call.fn = "evaluateExpression" /\ ~ IsNull(returned)

Result == Val(returned)

TheStatement == call.expression.statements[1]

InitialState == [variables |-> emptyMap, random |-> random, log |-> <<>>]

\* the roll an expression starts with, under its +/- terms, parentheses and Nx
RECURSIVE BaseOf(_)
BaseOf(ctx) ==
  IF ctx.kind \in {"RollOnceStmt", "RollTimesStmt", "ExprTerm"} THEN BaseOf(ctx.e)
  ELSE IF ctx.kind = "InfixExpr2" THEN BaseOf(ctx.e1)
  ELSE ctx

\* the number of +/- terms that follow the roll
RECURSIVE ModifierCount(_)
ModifierCount(ctx) ==
  IF ctx.kind \in {"RollOnceStmt", "RollTimesStmt", "ExprTerm"} THEN ModifierCount(ctx.e)
  ELSE IF ctx.kind = "InfixExpr2" THEN 1 + ModifierCount(ctx.e1)
  ELSE 0

\* a result and, for a Multiple result, its sub-results
ResultsOf(r) == {r} \cup (IF r.rollType = "multiple" THEN {r.rolls[i] : i \in 1 .. Len(r.rolls)} ELSE {})

SavageResults == IF EvalDone THEN {r \in ResultsOf(Result) : r.rollType = "savageWild"} ELSE {}

RECURSIVE SumOver(_, _)
SumOver(S, f) ==
  IF S = {} THEN 0
  ELSE LET i == CHOOSE j \in S : TRUE IN f[i] + SumOver(S \ {i}, f)

\* the sums of the die totals over every choice of n of the dice
ChoiceSums(dice, n) ==
  {SumOver(I, [i \in 1 .. Len(dice) |-> dice[i].total]) :
     I \in {J \in SUBSET (1 .. Len(dice)) : Cardinality(J) = n}}

LargestSum(dice, n) == CHOOSE v \in ChoiceSums(dice, n) : \A w \in ChoiceSums(dice, n) : w <= v

SmallestSum(dice, n) == CHOOSE v \in ChoiceSums(dice, n) : \A w \in ChoiceSums(dice, n) : v <= w

IsKeepRoll ==
  /\ EvalDone
  /\ TheStatement.kind = "RollOnceStmt"
  /\ TheStatement.e.kind = "GenericRollExpr"
  /\ ~ IsNull(TheStatement.e.suffix)
  /\ Val(TheStatement.e.suffix).kind = "RollAndKeepSuffix"

KeepX == IF IsNull(TheStatement.e.t1) THEN 1 ELSE Val(TheStatement.e.t1)

KeepN == IF IsNull(Val(TheStatement.e.suffix).n) THEN 1 ELSE Val(Val(TheStatement.e.suffix).n)

KeepOp == Val(TheStatement.e.suffix).op

\* the dice the roll produced, in roll order
RolledDice ==
  rollDice(0, KeepX, TheStatement.e.t2.n, TheStatement.e.excl,
           [dice |-> <<>>, st |-> InitialState]).dice

\* C4: for X dice with a keep suffix of count N <= X (N = 1 when omitted) the
\* value is the sum of the N largest die totals for k/adv and of the N
\* smallest for kl/dis, and the other X - N dice are the dropped ones.
C4_KeepSum ==
  (IsKeepRoll /\ KeepN <= KeepX) =>
    /\ Result.rollType = "generic"
    /\ Result.value = (IF KeepOp \in {"k", "adv", "ADV"}
                         THEN LargestSum(RolledDice, KeepN)
                         ELSE SmallestSum(RolledDice, KeepN))
    /\ Len(Result.dice) = KeepX
    /\ Len(Result.droppedDice) = KeepX - KeepN
    /\ Result.droppedDice = SubSeq(Result.dice, KeepN + 1, KeepX)
    /\ \A i \in 1 .. KeepX : Result.dice[i].kept = (i <= KeepN)
    /\ \A t \in {RolledDice[i].total : i \in 1 .. KeepX} :
         Cardinality({i \in 1 .. KeepX : RolledDice[i].total = t})
           = Cardinality({i \in 1 .. KeepX : Result.dice[i].total = t})

C4_Witness ==
  /\ IsKeepRoll /\ KeepX = 3 /\ KeepN = 2 /\ KeepOp = "k"
  /\ TheStatement.e.excl
  /\ Result.droppedDice[1].total < Result.dice[1].total
  /\ RolledDice[1].total < RolledDice[2].total

\* C5: usedDie is 'trait' whenever the trait die's total is at least the wild
\* die's total (a tie selects trait) and 'wild' only when the wild total is
\* strictly greater, in the evaluator and in rollWithWildDie.
C5_TieFavorsTrait ==
  /\ \A r \in SavageResults :
       r.usedDie = (IF r.traitDie.total >= r.wildDie.total THEN "trait" ELSE "wild")
  /\ (call.fn = "rollWithWildDie" /\ ~ IsNull(returned)) =>
       Result.usedDie = (IF Result.traitRoll.total >= Result.wildRoll.total
                           THEN "trait" ELSE "wild")

C5_Witness ==
  /\ \E r \in SavageResults : r.traitDie.total = r.wildDie.total /\ r.usedDie = "trait"
                              /\ r.traitDie.exploded

C5_WitnessWild ==
  \E r \in SavageResults : r.traitDie.total < r.wildDie.total /\ r.usedDie = "wild"

\* C6: every SavageWild result has value = max(traitDie.total, wildDie.total)
\* + modifier, for sN[wM] alone or followed by any number of +/- terms.
C6_ValueIsMaxPlusModifier ==
  \A r \in SavageResults :
    r.value = Max(r.traitDie.total, r.wildDie.total) + r.modifier

\* the same with at most one +/- term after the roll
C6_AtMostOneModifier ==
  (EvalDone /\ ModifierCount(TheStatement) <= 1) => C6_ValueIsMaxPlusModifier

\* C7: every SavageWild result carries a target number, a raise interval and
\* a RaiseOutcome, also without a t/r suffix; an omitted target number is 4
\* and an omitted raise interval is 4.
SavageTn == BaseOf(TheStatement).targetNumberAndRaiseStep

TargetOmitted ==
  IsNull(SavageTn) \/ (IsNull(Val(SavageTn).tt) /\ IsNull(Val(SavageTn).tnr) /\ IsNull(Val(SavageTn).tgtn))

IntervalOmitted ==
  IsNull(SavageTn) \/ (IsNull(Val(SavageTn).tr) /\ IsNull(Val(SavageTn).tnr))

C7_DefaultsFourFour ==
  \A r \in SavageResults :
    /\ ~ IsNull(r.targetNumber) /\ ~ IsNull(r.raiseInterval) /\ ~ IsNull(r.raises)
    /\ TargetOmitted => Val(r.targetNumber) = 4
    /\ IntervalOmitted => Val(r.raiseInterval) = 4

C7_Witness ==
  \E r \in SavageResults :
    /\ IsNull(SavageTn)
    /\ Val(r.targetNumber) = 4 /\ Val(r.raiseInterval) = 4
    /\ Val(r.raises).success /\ r.modifier # 0

\* C8: a RaiseOutcome for a total against a target number and raise interval
\* has margin = total - targetNumber, success <=> margin >= 0, raises =
\* floor(margin / raiseInterval) on success and 0 otherwise, never negative.
IsOutcomeOf(o, t, targetNumber, raiseInterval) ==
  /\ o.margin = t - targetNumber
  /\ o.success <=> (t - targetNumber >= 0)
  /\ o.success => /\ o.raises * raiseInterval <= o.margin
                  /\ o.margin < (o.raises + 1) * raiseInterval
  /\ ~ o.success => o.raises = 0
  /\ o.raises >= 0

RaiseResults ==
  IF EvalDone
    THEN {r \in ResultsOf(Result) : r.rollType \in {"savageWild", "generic"} /\ ~ IsNull(r.raises)}
    ELSE {}

C8_WitnessFailure ==
  /\ call.fn = "calculateRaises" /\ ~ IsNull(returned)
  /\ call.roll = 3 /\ call.targetNumber = 4 /\ call.raiseInterval = 4
  /\ ~ Result.success /\ Result.raises = 0 /\ Result.margin = 0 - 1

C8_WitnessEvaluator ==
  \E r \in RaiseResults : r.rollType = "savageWild" /\ r.modifier # 0 /\ Val(r.raises).raises >= 1

\* C9: a batch NxExpr returns a Multiple result with exactly N sub-results,
\* the k-th being the result of the k-th iteration, and value their sum.
IsBatch == EvalDone /\ TheStatement.kind = "RollTimesStmt"

RECURSIVE StateAfter(_, _)
StateAfter(e, k) == IF k = 0 THEN InitialState ELSE Visit(e, StateAfter(e, k - 1)).st

C9_BatchResult ==
  IsBatch =>
    /\ Result.rollType = "multiple"
    /\ Len(Result.rolls) = TheStatement.n
    /\ \A k \in 1 .. TheStatement.n :
         Result.rolls[k] = Visit(TheStatement.e, StateAfter(TheStatement.e, k - 1)).result
    /\ Result.value = SumOver(1 .. Len(Result.rolls),
                              [k \in 1 .. Len(Result.rolls) |-> Result.rolls[k].value])

C9_Witness ==
  /\ IsBatch /\ TheStatement.n = 3 /\ Len(Result.rolls) = 3
  /\ Result.rolls[1].value # Result.rolls[3].value
  /\ Result.rolls[1].rollType = "generic"
  /\ Result.value = Result.rolls[1].value + Result.rolls[2].value + Result.rolls[3].value

\* C10: the iterations of a batch share one variable environment: a read of
\* a variable returns the value of the latest assignment to it in the same
\* evaluate call, also when that assignment was made in an earlier iteration
\* (0 when it was never assigned).
LastSet(j, name) ==
  LET S == {i \in 1 .. (j - 1) : log[i].op = "set" /\ log[i].name = name} IN
    IF S = {} THEN 0 ELSE CHOOSE i \in S : \A i2 \in S : i2 <= i

C10_SharedEnvironment ==
  \A j \in 1 .. Len(log) :
    log[j].op = "get" =>
      log[j].value = (IF LastSet(j, log[j].name) = 0 THEN 0
                      ELSE log[LastSet(j, log[j].name)].value)

C10_Witness ==
  /\ IsBatch
  /\ \E j \in 1 .. Len(log) :
       /\ log[j].op = "get" /\ log[j].value # 0
       /\ \E m \in (LastSet(j, log[j].name) + 1) .. (j - 1) : log[m].op = "iteration"

\* ------------------------------------------------ several evaluate calls
\* Each evaluateExpression call constructs its own R2EvaluatorVisitor.  A
\* call is synchronous in JavaScript; the calls are interleaved here between
\* statements, which covers calls that run one after another as well as a
\* host that runs them on separate tasks.
NumCalls == 2

Calls == 1 .. NumCalls

CallCommands ==
  { CommandElement(<<RollOnceStmt(AssignExpr("@x", IntTerm(3))),
                     RollOnceStmt(InfixExpr1(VarTerm("@x"), "*", IntTerm(2)))>>),
    CommandElement(<<RollOnceStmt(AssignExpr("@x", GenericRollExpr(Null, Facets(2), FALSE, Null))),
                     RollOnceStmt(InfixExpr2(VarTerm("@x"), "+", IntTerm(1)))>>),
    CommandElement(<<RollOnceStmt(InfixExpr2(VarTerm("@x"), "+", VarTerm("@y")))>>),
    CommandElement(<<RollOnceStmt(AssignExpr("@y", InfixExpr2(VarTerm("@x"), "+", IntTerm(1)))),
                     RollOnceStmt(AssignExpr("@x", InfixExpr2(VarTerm("@y"), "+", IntTerm(4)))),
                     RollOnceStmt(VarTerm("@x"))>>) }

idleVisitor ==
  [pc |-> "idle", expression |-> CommandElement(<<>>), next |-> 1, variables |-> emptyMap,
   results |-> <<>>, log |-> <<>>, returned |-> Null]

ownVariablesMutShared(vs, c) == vs[1].variables

\* this.variables of the visitor of call c
ownVariables(vs, c) == vs[c].variables

\* const evaluator = new R2EvaluatorVisitor()
Call(c) ==
  /\ visitors[c].pc = "idle"
  /\ \E e \in CallCommands :
       visitors' = [visitors EXCEPT ![c] =
                      [idleVisitor EXCEPT !.pc = "running", !.expression = e,
                                          !.variables = emptyMap]]
  /\ UNCHANGED <<call, random, returned, thrown, variables, log, acingVars, hostVars>>

\* statements.map(stmt => this.visit(stmt)): the next statement of call c
VisitStatement(c) ==
  /\ visitors[c].pc = "running"
  /\ visitors[c].next <= Len(visitors[c].expression.statements)
  /\ \E u \in RandomDraws :
       LET v == visitors[c]
           r == Visit(v.expression.statements[v.next],
                      [variables |-> ownVariables(visitors, c), random |-> <<u>>, log |-> v.log])
       IN  visitors' = [visitors EXCEPT ![c] =
                          [v EXCEPT !.next = @ + 1, !.variables = r.st.variables,
                                    !.results = Append(@, r.result), !.log = r.st.log]]
  /\ UNCHANGED <<call, random, returned, thrown, variables, log, acingVars, hostVars>>

\* return evaluator.visit(tree)
Return(c) ==
  /\ visitors[c].pc = "running"
  /\ visitors[c].next > Len(visitors[c].expression.statements)
  /\ visitors' = [visitors EXCEPT ![c] =
                    [visitors[c] EXCEPT !.pc = "returned",
                                        !.returned = Some(commandResult(visitors[c].results))]]
  /\ UNCHANGED <<call, random, returned, thrown, variables, log, acingVars, hostVars>>

InitCalls ==
  /\ visitors = [c \in Calls |-> idleVisitor]
  /\ call = [fn |-> "calls"]
  /\ random = <<>>
  /\ returned = Null
  /\ thrown = Null
  /\ variables = emptyMap
  /\ log = <<>>
  /\ sides = 1
  /\ maxAces = 0
  /\ pc = "done"
  /\ stack = <<>>
  /\ ret = 0
  /\ fpc = "done"
  /\ rolls = <<>>
  /\ total = 0
  /\ aces = 0
  /\ HostIdle

NextCalls ==
  \/ \E c \in Calls : Call(c)
  \/ \E c \in Calls : VisitStatement(c)
  \/ \E c \in Calls : Return(c)

SpecCalls == InitCalls /\ [][NextCalls]_vars

\* the latest assignment to name before entry j of a call's history (0: none)
LastSetIn(lg, j, name) ==
  LET S == {i \in 1 .. (j - 1) : lg[i].op = "set" /\ lg[i].name = name} IN
    IF S = {} THEN 0 ELSE CHOOSE i \in S : \A i2 \in S : i2 <= i

\* what a call's own assignments so far make of a variable
OwnValue(lg, j, name) ==
  IF LastSetIn(lg, j, name) = 0 THEN Null ELSE Some(lg[LastSetIn(lg, j, name)].value)

\* C11: each evaluate call starts with an empty variable environment that it
\* alone owns: what a call reads from a variable, and what its environment
\* holds, comes from its own assignments only (0 / absent when it made
\* none), whether the calls run one after another or interleave.
C11_OwnEnvironment ==
  \A c \in Calls :
    LET v == visitors[c] IN
      /\ \A n \in VarNames : v.variables[n] = OwnValue(v.log, Len(v.log) + 1, n)
      /\ \A j \in 1 .. Len(v.log) :
           v.log[j].op = "get" =>
             v.log[j].value = (IF IsNull(OwnValue(v.log, j, v.log[j].name)) THEN 0
                               ELSE Val(OwnValue(v.log, j, v.log[j].name)))

\* two calls in progress at once hold different values of @x, and the second
\* has read its own
C11_Witness ==
  /\ visitors[1].pc = "running" /\ visitors[2].pc = "running"
  /\ visitors[1].next = 2 /\ visitors[2].next = 3
  /\ ~ IsNull(visitors[1].variables["@x"])
  /\ ~ IsNull(visitors[2].variables["@x"])
  /\ visitors[1].variables["@x"] # visitors[2].variables["@x"]
  /\ \E j \in 1 .. Len(visitors[2].log) :
       visitors[2].log[j].op = "get" /\ visitors[2].log[j].name = "@x"

\* a call that assigns nothing reads 0 after another call assigned and returned
C11_WitnessSequential ==
  /\ visitors[1].pc = "returned" /\ ~ IsNull(visitors[1].variables["@x"])
  /\ visitors[2].pc = "returned" /\ visitors[2].log # <<>>
  /\ \A j \in 1 .. Len(visitors[2].log) : visitors[2].log[j].op = "get"

\* ------------------------------------------------ normalizeExpression
\* A string is the sequence of its characters.
Digits == {"0", "1", "2", "3", "4", "5", "6", "7", "8", "9"}

IsDigit(c) == c \in Digits

\* String.prototype.toLowerCase on one character
lowerChar(c) ==
  CASE c = "X" -> "x" [] c = "S" -> "s" [] c = "W" -> "w" [] c = "D" -> "d"
    [] c = "T" -> "t" [] c = "R" -> "r" [] c = "K" -> "k" [] c = "L" -> "l"
    [] c = "A" -> "a" [] c = "V" -> "v" [] c = "I" -> "i" [] c = "P" -> "p"
    [] OTHER -> c

lowerString(str) == [i \in 1 .. Len(str) |-> lowerChar(str[i])]

\* the number of digits of str from position i on: what \d* or \d+ takes there
RECURSIVE DigitRun(_, _)
DigitRun(str, i) ==
  IF i <= Len(str) /\ IsDigit(str[i]) THEN 1 + DigitRun(str, i + 1) ELSE 0

CharAt(str, i) == IF i >= 1 /\ i <= Len(str) THEN str[i] ELSE ""

From(str, i) == SubSeq(str, i, Len(str))

NoMatch == [matched |-> FALSE]

\* expression.match(/^(\d+[xX])(.*)/)
repeatMatch(expression) ==
  LET n == DigitRun(expression, 1) IN
    IF n >= 1 /\ lowerChar(CharAt(expression, n + 1)) = "x"
      THEN [matched |-> TRUE, g1 |-> SubSeq(expression, 1, n + 1), g2 |-> From(expression, n + 2)]
      ELSE NoMatch

\* rollExpression.match(/^(\d*[sS]\d+(?:[wW]\d+)?)(.*)/)
swMatch(rollExpression) ==
  LET n == DigitRun(rollExpression, 1)
      m == DigitRun(rollExpression, n + 2)
      w == DigitRun(rollExpression, n + m + 3)
      last == IF lowerChar(CharAt(rollExpression, n + m + 2)) = "w" /\ w >= 1
                THEN n + m + 2 + w ELSE n + m + 1
  IN  IF lowerChar(CharAt(rollExpression, n + 1)) = "s" /\ m >= 1
        THEN [matched |-> TRUE, g1 |-> SubSeq(rollExpression, 1, last),
              g2 |-> From(rollExpression, last + 1)]
        ELSE NoMatch

\* rollExpression.match(/^(\d*[dD]\d+%?)(!)?(.*)$/)
genericMatch(rollExpression) ==
  LET n == DigitRun(rollExpression, 1)
      m == DigitRun(rollExpression, n + 2)
      last == IF CharAt(rollExpression, n + m + 2) = "%" THEN n + m + 2 ELSE n + m + 1
      bang == CharAt(rollExpression, last + 1) = "!"
  IN  IF lowerChar(CharAt(rollExpression, n + 1)) = "d" /\ m >= 1
        THEN [matched |-> TRUE, g1 |-> SubSeq(rollExpression, 1, last),
              g2 |-> IF bang THEN <<"!">> ELSE <<>>,
              g3 |-> From(rollExpression, IF bang THEN last + 2 ELSE last + 1)]
        ELSE NoMatch

\* the leftmost position of rest where one of the characters is followed by a digit
Leftmost(S) == CHOOSE i \in S : \A j \in S : i <= j

MarkerPositions(rest, chars) ==
  {i \in 1 .. Len(rest) : lowerChar(rest[i]) \in chars /\ DigitRun(rest, i + 1) >= 1}

\* rest.match(/[tT](\d+)/), rest.match(/[rR](\d+)/): g1 is the number
letterNumberMatch(rest, letter) ==
  LET S == MarkerPositions(rest, {letter}) IN
    IF S = {} THEN NoMatch
    ELSE [matched |-> TRUE,
          g1 |-> SubSeq(rest, Leftmost(S) + 1, Leftmost(S) + DigitRun(rest, Leftmost(S) + 1))]

\* rest.match(/([+-]\d+)/): g1 is the sign and the number
modifierMatch(rest) ==
  LET S == MarkerPositions(rest, {"+", "-"}) IN
    IF S = {} THEN NoMatch
    ELSE [matched |-> TRUE,
          g1 |-> SubSeq(rest, Leftmost(S), Leftmost(S) + DigitRun(rest, Leftmost(S) + 1))]

\* the length of what ([kK][lL]?|adv|dis) matches at position i (0: nothing), ignoring case
keepOpLength(rest, i) ==
  LET c1 == lowerChar(CharAt(rest, i))
      c2 == lowerChar(CharAt(rest, i + 1))
      c3 == lowerChar(CharAt(rest, i + 2))
  IN  IF c1 = "k" THEN (IF c2 = "l" THEN 2 ELSE 1)
      ELSE IF c1 = "a" /\ c2 = "d" /\ c3 = "v" THEN 3
      ELSE IF c1 = "d" /\ c2 = "i" /\ c3 = "s" THEN 3
      ELSE 0

\* rest.match(/([kK][lL]?|adv|dis)(\d*)/i)
keepMatch(rest) ==
  LET S == {i \in 1 .. Len(rest) : keepOpLength(rest, i) > 0} IN
    IF S = {} THEN NoMatch
    ELSE LET i == Leftmost(S)
             n == keepOpLength(rest, i)
         IN  [matched |-> TRUE, g1 |-> SubSeq(rest, i, i + n - 1),
              g2 |-> SubSeq(rest, i + n, i + n - 1 + DigitRun(rest, i + n))]

\* normalized += 't' + targetMatch[1] and the like
emit(m, lead) == IF m.matched THEN lead \o m.g1 ELSE <<>>

\* repeat + base + target + raise + modifier
savageNormalized(repeatPrefix, baseRoll, targetM, raiseM, modifierM) ==
  repeatPrefix \o baseRoll \o emit(targetM, <<"t">>) \o emit(raiseM, <<"r">>) \o emit(modifierM, <<>>)

genericNormalizedMutKeepFirst(repeatPrefix, baseRoll, explosion, keepM, targetM, raiseM, modifierM) ==
  repeatPrefix \o baseRoll
    \o (IF keepM.matched THEN lowerString(keepM.g1) \o keepM.g2 ELSE <<>>)
    \o explosion
    \o emit(targetM, <<"t">>) \o emit(raiseM, <<"r">>) \o emit(modifierM, <<>>)

\* repeat + base + explosion + keep + target + raise + modifier
genericNormalized(repeatPrefix, baseRoll, explosion, keepM, targetM, raiseM, modifierM) ==
  repeatPrefix \o baseRoll \o explosion
    \o (IF keepM.matched THEN lowerString(keepM.g1) \o keepM.g2 ELSE <<>>)
    \o emit(targetM, <<"t">>) \o emit(raiseM, <<"r">>) \o emit(modifierM, <<>>)

normalizeExpression(expression) ==
  LET rep == repeatMatch(expression)
      repeatPrefix == IF rep.matched THEN rep.g1 ELSE <<>>
      rollExpression == IF rep.matched THEN rep.g2 ELSE expression
      sw == swMatch(rollExpression)
      gen == genericMatch(rollExpression)
  IN  IF sw.matched
        THEN savageNormalized(repeatPrefix, sw.g1, letterNumberMatch(sw.g2, "t"),
                              letterNumberMatch(sw.g2, "r"), modifierMatch(sw.g2))
      ELSE IF gen.matched
        THEN genericNormalized(repeatPrefix, gen.g1, gen.g2, keepMatch(gen.g3),
                               letterNumberMatch(gen.g3, "t"), letterNumberMatch(gen.g3, "r"),
                               modifierMatch(gen.g3))
      ELSE expression

\* ---- the expressions normalized: [Nx] base suffix*
MaxSuffixes == 3

RepeatPrefixes == {<<>>, <<"3", "x">>}

BaseRolls ==
  { <<"s", "8">>, <<"2", "S", "8", "w", "6">>, <<"d", "6">>, <<"3", "D", "6">> }

SuffixTokens ==
  { <<"!">>, <<"k", "2">>, <<"K", "L">>, <<"a", "d", "v">>,
    <<"t", "5">>, <<"R", "4">>, <<"+", "2">>, <<"-", "1">>,
    <<"s", "4">>, <<"[", "2", ":", "5", "]">> }

RECURSIVE Concat(_)
Concat(parts) == IF parts = <<>> THEN <<>> ELSE Head(parts) \o Concat(Tail(parts))

SuffixLists == UNION {[1 .. n -> SuffixTokens] : n \in 0 .. MaxSuffixes}

\* expressions of no die-roll shape
OtherExpressions ==
  { <<"2", "+", "3">>, <<"(", "d", "6", ")", "+", "1">>, <<"@", "x">>, <<"d", "%", "k", "2">>,
    <<"3", "x", "3", "x", "s", "8">>, <<>>,
    <<"h", "e", "l", "l", "o">>, <<"1", "2", "3">>,
    <<"2", "d", "6", "+", "1", "d", "4">>, <<"3", "d", "8", "*", "2">>,
    <<"(", "2", "d", "6", ")", "*", "2">>, <<"2", "+", "d", "6">> }

\* A call keeps the parts its expression was written from: shape "roll" is
\* one die roll or Savage Worlds roll (prefix, base) followed by suffixes,
\* shape "other" is everything else.
NormalizeCalls ==
  {[fn |-> "normalizeExpression", expression |-> p \o b \o Concat(sfx),
    shape |-> "roll", prefix |-> p, base |-> b, suffixes |-> sfx] :
     p \in RepeatPrefixes, b \in BaseRolls, sfx \in SuffixLists}
  \cup {[fn |-> "normalizeExpression", expression |-> e,
         shape |-> "other", prefix |-> <<>>, base |-> <<>>, suffixes |-> <<>>] :
          e \in OtherExpressions}

Normalize ==
  /\ call.fn = "normalizeExpression"
  /\ IsNull(returned)
  /\ returned' = Some(normalizeExpression(call.expression))
  /\ UNCHANGED <<call, random, thrown, visitors, variables, log, acingVars, hostVars>>

InitNormalize ==
  /\ call \in NormalizeCalls
  /\ random = <<>>
  /\ returned = Null
  /\ thrown = Null
  /\ visitors = <<>>
  /\ variables = emptyMap
  /\ log = <<>>
  /\ sides = 1
  /\ maxAces = 0
  /\ pc = "done"
  /\ stack = <<>>
  /\ ret = 0
  /\ fpc = "done"
  /\ rolls = <<>>
  /\ total = 0
  /\ aces = 0
  /\ HostIdle

NextNormalize == Normalize

SpecNormalize == InitNormalize /\ [][NextNormalize]_vars

NormalizeDone == call.fn = "normalizeExpression" /\ ~ IsNull(returned)

\* the expression has a recognized die-roll or Savage Worlds shape
IsRecognized(expression) ==
  LET rep == repeatMatch(expression)
      rollExpression == IF rep.matched THEN rep.g2 ELSE expression
  IN  swMatch(rollExpression).matched \/ genericMatch(rollExpression).matched

\* C20: for every expression s of a recognized die-roll or Savage Worlds
\* shape, normalize(normalize(s)) = normalize(s); an already-canonical
\* string is returned unchanged.
C20_NormalizeIdempotent ==
  NormalizeDone => normalizeExpression(Val(returned)) = Val(returned)

\* a generic roll with explosion and keep whose suffixes were reordered
C20_Witness ==
  /\ NormalizeDone
  /\ IsRecognized(call.expression)
  /\ Val(returned) # call.expression
  /\ Len(Val(returned)) = Len(call.expression)
  /\ \E i \in 1 .. Len(Val(returned)) : Val(returned)[i] = "!"
  /\ \E i \in 1 .. Len(Val(returned)) : Val(returned)[i] = "k"
  /\ \E i \in 1 .. Len(Val(returned)) : Val(returned)[i] = "+"

\* the kind of a suffix token
Category(token) ==
  CASE token[1] = "!" -> "explosion"
    [] token[1] \in {"k", "K", "a"} -> "keep"
    [] token[1] \in {"t", "T"} -> "target"
    [] token[1] \in {"r", "R"} -> "raise"
    [] token[1] \in {"+", "-"} -> "modifier"
    [] OTHER -> "other"

\* at most one token of each kind, all of the five reorderable kinds
IsSuffixSet(sfx) ==
  /\ \A i \in 1 .. Len(sfx) : Category(sfx[i]) # "other"
  /\ \A i, j \in 1 .. Len(sfx) : Category(sfx[i]) = Category(sfx[j]) => i = j

Orderings(n) == {f \in [1 .. n -> 1 .. n] : \A i, j \in 1 .. n : f[i] = f[j] => i = j}

Reordered(sfx, f) == [i \in 1 .. Len(sfx) |-> sfx[f[i]]]

IsRollCall == NormalizeDone /\ call.shape = "roll"

C22_OthersUnchanged ==
  (NormalizeDone /\ call.shape = "other") => Val(returned) = call.expression

Occurrences(str, c) == Cardinality({i \in 1 .. Len(str) : lowerChar(str[i]) = lowerChar(c)})

\* C28: normalize only reorders: every token written after the base of a
\* roll (suffix, success count, bound, second modifier) is present in the
\* output, so input and output hold the same characters up to letter case.
C28_NothingDropped ==
  IsRollCall =>
    /\ Len(Val(returned)) = Len(call.expression)
    /\ \A i \in 1 .. Len(call.expression) :
         Occurrences(Val(returned), call.expression[i])
           = Occurrences(call.expression, call.expression[i])

\* the call is over: it returned or it threw
Completed == ~ IsNull(returned) \/ ~ IsNull(thrown)

Aborted == ~ IsNull(thrown) /\ IsNull(returned)

\* ------------------------------------------------ evaluateExpression on text
\* The generated parser is modelled from the grammar: a text is the sequence
\* of its one-character tokens, of
\*   command := expr (';' expr)*     expr := term (('+'|'-') term)*
\*   term    := primary ('[' INT? ':' INT? ']')?
\*   primary := INT | INT? 'd' INT | '(' expr ')'
\* The parser reports its first syntax error to the error listener with the
\* column of the offending token; if the listener returns, the parser
\* recovers by dropping that token (the last one at the end of the text).
MaxTokens == 4

TokenChars == {"2", "d", "+", "-", "(", ")", ";"}

Texts == UNION {[1 .. n -> TokenChars] : n \in 0 .. MaxTokens}

intOf(c) ==
  CASE c = "0" -> 0 [] c = "1" -> 1 [] c = "2" -> 2 [] c = "3" -> 3 [] c = "4" -> 4
    [] c = "5" -> 5 [] c = "6" -> 6 [] c = "7" -> 7 [] c = "8" -> 8 [] c = "9" -> 9

Parsed(tree, next) == [ok |-> TRUE, tree |-> tree, next |-> next]

\* a syntax error at the token of index at (column at - 1)
Failed(at) == [ok |-> FALSE, column |-> at - 1]

RECURSIVE parseExpr(_, _)

parseTerm(text, i) ==
  LET c == CharAt(text, i) IN
    IF IsDigit(c) /\ CharAt(text, i + 1) = "d"
      THEN IF IsDigit(CharAt(text, i + 2))
             THEN Parsed(GenericRollExpr(Some(intOf(c)), Facets(intOf(text[i + 2])), FALSE, Null),
                         i + 3)
             ELSE Failed(i + 2)
    ELSE IF IsDigit(c) THEN Parsed(IntTerm(intOf(c)), i + 1)
    ELSE IF c = "d"
      THEN IF IsDigit(CharAt(text, i + 1))
             THEN Parsed(GenericRollExpr(Null, Facets(intOf(text[i + 1])), FALSE, Null), i + 2)
             ELSE Failed(i + 1)
    ELSE IF c = "("
      THEN LET e == parseExpr(text, i + 1) IN
             IF ~ e.ok THEN e
             ELSE IF CharAt(text, e.next) = ")" THEN Parsed(ExprTerm(e.tree), e.next + 1)
             ELSE Failed(e.next)
    ELSE Failed(i)

\* the optional bound after a term: '[' INT? ':' INT? ']'
parseBound(text, e) ==
  IF ~ e.ok \/ CharAt(text, e.next) # "[" THEN e
  ELSE LET hasMin == IsDigit(CharAt(text, e.next + 1))
           colon == IF hasMin THEN e.next + 2 ELSE e.next + 1
           hasMax == IsDigit(CharAt(text, colon + 1))
           close == IF hasMax THEN colon + 2 ELSE colon + 1
       IN  IF CharAt(text, colon) # ":" THEN Failed(colon)
           ELSE IF CharAt(text, close) # "]" THEN Failed(close)
           ELSE Parsed(BoundedExpr(e.tree,
                                   IF hasMin THEN Some(IntTerm(intOf(text[e.next + 1]))) ELSE Null,
                                   IF hasMax THEN Some(IntTerm(intOf(text[colon + 1]))) ELSE Null),
                       close + 1)

parseBounded(text, i) == CHOOSE b \in {parseBound(text, e) : e \in {parseTerm(text, i)}} : TRUE

RECURSIVE parseTerms(_, _)
parseTerms(text, left) ==
  IF CharAt(text, left.next) \in {"+", "-"}
    THEN LET right == parseBounded(text, left.next + 1) IN
           IF ~ right.ok THEN right
           ELSE parseTerms(text, Parsed(InfixExpr2(left.tree, text[left.next], right.tree),
                                        right.next))
    ELSE left

parseExpr(text, i) ==
  LET first == parseBounded(text, i) IN
    IF ~ first.ok THEN first ELSE parseTerms(text, first)

RECURSIVE parseStatements(_, _, _)
parseStatements(text, i, statements) ==
  LET e == parseExpr(text, i) IN
    IF ~ e.ok THEN e
    ELSE IF CharAt(text, e.next) = ";"
      THEN parseStatements(text, e.next + 1, Append(statements, RollOnceStmt(e.tree)))
    ELSE IF e.next = Len(text) + 1
      THEN Parsed(CommandElement(Append(statements, RollOnceStmt(e.tree))), e.next)
    ELSE Failed(e.next)

parseCommand(text) == parseStatements(text, 1, <<>>)

DropAt(text, i) == SubSeq(text, 1, i - 1) \o SubSeq(text, i + 1, Len(text))

\* the tree the parser builds when the listener lets it go on
RECURSIVE recoveredTree(_)
recoveredTree(text) ==
  LET p == parseCommand(text) IN
    IF p.ok THEN p.tree
    ELSE IF text = <<>> THEN CommandElement(<<>>)
    ELSE recoveredTree(DropAt(text, Min(p.column + 1, Len(text))))

\* an Error object
Error(message, column) == [message |-> message, position |-> column]

syntaxErrorMutReport(column) == Null

\* syntaxError: (_recognizer, _offendingSymbol, _line, column, msg) => { throw new Error(...) }
syntaxError(column) == Some(Error("Syntax error at position", column))

\* try { ... parser.commandElement(); return evaluator.visit(tree) } catch (error) { throw error }
\* The outcome is [thrown, returned], with the draws left in random.
evaluateText(text, tape) ==
  LET p == parseCommand(text)
      raised == IF p.ok THEN Null ELSE syntaxError(p.column)
  IN  IF ~ IsNull(raised)
        THEN [thrown |-> raised, returned |-> Null, random |-> tape]
        ELSE CHOOSE outcome \in
               {[thrown |-> Null, returned |-> Some(r.result), random |-> r.st.random] :
                  r \in {evaluateExpression(recoveredTree(text), tape)}} : TRUE

TextCalls == {[fn |-> "evaluateText", text |-> t] : t \in Texts}

EvaluateText ==
  /\ call.fn = "evaluateText"
  /\ ~ Completed
  /\ LET r == evaluateText(call.text, random) IN
       /\ thrown' = r.thrown
       /\ returned' = r.returned
  /\ UNCHANGED <<call, random, visitors, variables, log, acingVars, hostVars>>

InitText ==
  /\ call \in TextCalls
  /\ random \in {<<u>> : u \in RandomDraws}
  /\ returned = Null
  /\ thrown = Null
  /\ visitors = <<>>
  /\ variables = emptyMap
  /\ log = <<>>
  /\ sides = 1
  /\ maxAces = 0
  /\ pc = "done"
  /\ stack = <<>>
  /\ ret = 0
  /\ fpc = "done"
  /\ rolls = <<>>
  /\ total = 0
  /\ aces = 0
  /\ HostIdle

NextText == EvaluateText

SpecText == InitText /\ [][NextText]_vars

\* the grammar, as the set of texts it derives
RECURSIVE IsExpr(_)

IsTerm(t) ==
  \/ Len(t) = 1 /\ IsDigit(t[1])
  \/ Len(t) = 2 /\ t[1] = "d" /\ IsDigit(t[2])
  \/ Len(t) = 3 /\ IsDigit(t[1]) /\ t[2] = "d" /\ IsDigit(t[3])
  \/ Len(t) >= 3 /\ t[1] = "(" /\ t[Len(t)] = ")" /\ IsExpr(SubSeq(t, 2, Len(t) - 1))

IsExpr(t) ==
  \/ IsTerm(t)
  \/ \E i \in 2 .. (Len(t) - 1) :
       /\ t[i] \in {"+", "-"}
       /\ IsExpr(SubSeq(t, 1, i - 1))
       /\ IsTerm(SubSeq(t, i + 1, Len(t)))

RECURSIVE IsCommand(_)
IsCommand(t) ==
  \/ IsExpr(t)
  \/ \E i \in 2 .. (Len(t) - 1) :
       /\ t[i] = ";"
       /\ IsCommand(SubSeq(t, 1, i - 1))
       /\ IsExpr(SubSeq(t, i + 1, Len(t)))

\* The first token that no well-formed text has after the tokens before it,
\* found by a scan that counts the open parentheses: its column, Len(text)
\* when the text ends too early, -1 when there is none.  mode is what the
\* scan expects: "operand", "digit" (after d), "operator", or "count" (an
\* operator, or the d of a roll, after a number).
RECURSIVE FirstProblem(_, _, _, _)
FirstProblem(text, i, depth, mode) ==
  LET c == CharAt(text, i)
      here == i - 1
  IN  IF i > Len(text)
        THEN (IF mode \in {"operator", "count"} /\ depth = 0 THEN 0 - 1 ELSE here)
      ELSE IF mode = "operand"
        THEN (IF IsDigit(c) THEN FirstProblem(text, i + 1, depth, "count")
              ELSE IF c = "d" THEN FirstProblem(text, i + 1, depth, "digit")
              ELSE IF c = "(" THEN FirstProblem(text, i + 1, depth + 1, "operand")
              ELSE here)
      ELSE IF mode = "digit"
        THEN (IF IsDigit(c) THEN FirstProblem(text, i + 1, depth, "operator") ELSE here)
      ELSE (IF c = "d" /\ mode = "count" THEN FirstProblem(text, i + 1, depth, "digit")
            ELSE IF c \in {"+", "-"} THEN FirstProblem(text, i + 1, depth, "operand")
            ELSE IF c = ")" /\ depth > 0 THEN FirstProblem(text, i + 1, depth - 1, "operator")
            ELSE IF c = ";" /\ depth = 0 THEN FirstProblem(text, i + 1, depth, "operand")
            ELSE here)

TextDone == call.fn = "evaluateText" /\ Completed

C18_WitnessWellFormed ==
  /\ TextDone
  /\ Len(call.text) = 4
  /\ \E i \in 1 .. 4 : call.text[i] = ";"
  /\ ~ IsNull(returned)

\* ------------------------------------------------ claims on statements and arithmetic
IsEvaluateCall == call.fn = "evaluateExpression"

Stmts == call.expression.statements

\* the command is  @v := E; @v*k
IsAssignThenScale ==
  /\ EvalDone
  /\ Len(Stmts) = 2
  /\ Stmts[1].e.kind = "AssignExpr"
  /\ Stmts[2].e.kind = "InfixExpr1"

\* the value E produced in the first statement
AssignedValue == Visit(Stmts[1].e.e1, InitialState).result.value

\* C12: for a command of two statements `@x := E; @x*k`, evaluate returns
\* value = k times the value E produced in the first statement.
C12_ScaledAssignedValue ==
  IsAssignThenScale => Result.value = Stmts[2].e.e2.i * AssignedValue

\* what the code returns for it: the sum of the values of both statements
C12_SumOfStatements ==
  IsAssignThenScale =>
    /\ Val(variables[Stmts[1].e.v]) = AssignedValue
    /\ Result.value = AssignedValue + Stmts[2].e.e2.i * AssignedValue

\* the statement is  L + m  or  L - m
IsInfix2 == EvalDone /\ TheStatement.kind = "RollOnceStmt" /\ TheStatement.e.kind = "InfixExpr2"

LeftResult == Visit(TheStatement.e.e1, InitialState).result

RightValue == TheStatement.e.e2.i

SignedRight == IF TheStatement.e.op = "+" THEN RightValue ELSE 0 - RightValue

\* C13: when the left operand of + or - is a Generic or SavageWild result,
\* the result is the same variant with the left operand's dice, dropped
\* dice, keep operation, target number and raise interval, it still carries
\* a RaiseOutcome if the left operand had one, and its modifier is the
\* signed right-hand value.
C13_LeftStructurePreserved ==
  (IsInfix2 /\ LeftResult.rollType \in {"generic", "savageWild"}) =>
    /\ Result.rollType = LeftResult.rollType
    /\ Result.targetNumber = LeftResult.targetNumber
    /\ Result.raiseInterval = LeftResult.raiseInterval
    /\ ~ IsNull(LeftResult.raises) => ~ IsNull(Result.raises)
    /\ LeftResult.rollType = "generic" =>
         /\ Result.dice = LeftResult.dice
         /\ Result.droppedDice = LeftResult.droppedDice
         /\ Result.keepOperation = LeftResult.keepOperation
         /\ Result.modifier = Some(SignedRight)
    /\ LeftResult.rollType = "savageWild" =>
         /\ Result.traitDie = LeftResult.traitDie
         /\ Result.wildDie = LeftResult.wildDie
         /\ Result.modifier = SignedRight

GenericResults == IF EvalDone THEN {r \in ResultsOf(Result) : r.rollType = "generic"} ELSE {}

\* C14: for every Generic result returned by evaluate, value equals the sum
\* of the totals of the dice that were not dropped plus the modifier (0 when
\* absent), also after a keep suffix and after chained +/- terms.
C14_GenericValueRecomputable ==
  \A r \in GenericResults :
    r.value = (SumTotals(r.dice) - SumTotals(r.droppedDice))
              + (IF IsNull(r.modifier) THEN 0 ELSE Val(r.modifier))

\* the statement is  a op b  with op one of * / %
IsInfix1Call ==
  /\ IsEvaluateCall
  /\ Len(Stmts) = 1
  /\ Stmts[1].kind = "RollOnceStmt"
  /\ Stmts[1].e.kind = "InfixExpr1"

StartState == [variables |-> emptyMap, random |-> random, log |-> <<>>]

LeftOperand == Visit(Stmts[1].e.e1, StartState)

RightOperand == Visit(Stmts[1].e.e2, LeftOperand.st)

Dividend == LeftOperand.result.value

Divisor == RightOperand.result.value

IsDivision == IsInfix1Call /\ Stmts[1].e.op = "/" /\ Divisor # 0 /\ ~ IsNull(returned)

IsFloorQuotient(q, a, b) ==
  IF b > 0 THEN q * b <= a /\ a < (q + 1) * b
           ELSE q * b >= a /\ a > (q + 1) * b

IsTruncatedQuotient(q, a, b) ==
  /\ Abs(q) * Abs(b) <= Abs(a)
  /\ Abs(a) < (Abs(q) + 1) * Abs(b)
  /\ q > 0 => (a < 0) = (b < 0)
  /\ q < 0 => (a < 0) # (b < 0)

\* C15 as stated: for integers a and b with b # 0, a / b is the quotient
\* truncated toward zero.
C15_DivisionTruncates ==
  IsDivision => IsTruncatedQuotient(Result.value, Dividend, Divisor)

\* C15 as amended: for integers a and b with b # 0, a / b is the greatest
\* integer not above the exact quotient (the floor), which is the truncated
\* quotient whenever the exact quotient is not negative or is an integer.
C15_DivisionFloors ==
  IsDivision =>
    /\ IsFloorQuotient(Result.value, Dividend, Divisor)
    /\ ((Dividend < 0) = (Divisor < 0) \/ Dividend = Result.value * Divisor)
         => IsTruncatedQuotient(Result.value, Dividend, Divisor)

C15_Witness ==
  /\ IsDivision
  /\ Dividend < 0 /\ Divisor > 1
  /\ Result.value * Divisor # Dividend
  /\ Result.value < 0

C15_WitnessPositive ==
  /\ IsDivision
  /\ Dividend > Divisor /\ Divisor > 1
  /\ Result.value * Divisor # Dividend

\* C16: a / b or a % b with b = 0 fails with a DivisionByZero error: the
\* evaluate call is aborted and returns no result.
C16_DivisionByZeroAborts ==
  (IsInfix1Call /\ Stmts[1].e.op \in {"/", "%"} /\ Divisor = 0 /\ Completed) => Aborted

\* a die with fewer than one side is requested
IsDieBelowOne ==
  \/ call.fn = "rollDie" /\ call.sides < 1
  \/ /\ IsEvaluateCall
     /\ Len(Stmts) = 1
     /\ Stmts[1].e.kind = "GenericRollExpr"
     /\ Stmts[1].e.t2.n < 1

\* C17: rollDie(sides) fails with an InvalidDie error for every sides < 1 and
\* never returns a number, so an expression asking for such a die fails as a
\* whole.
C17_InvalidDieFails ==
  (IsDieBelowOne /\ Completed) => Aborted

\* C19: the repetition count N of a batch NxExpr is capped: the number of
\* iterations of one evaluate call stays below a fixed limit whatever N is
\* written; here the limit is the largest N the model writes.
C19_BatchCountCapped ==
  IsBatch => Len(Result.rolls) < MaxTimes

\* what the code does: exactly the N iterations written, for every N
C19_IterationsAsWritten ==
  IsBatch => Len(Result.rolls) = TheStatement.n

\* the statement is  A--B
IsGygax ==
  /\ EvalDone
  /\ Len(Stmts) = 1
  /\ Stmts[1].e.kind = "GygaxRangeRollExpr"

GygaxA == Stmts[1].e.g0

GygaxB == Stmts[1].e.g1

\* the values A--B takes over every draw
GygaxOutcomes ==
  {Visit(Stmts[1].e, [variables |-> emptyMap, random |-> <<u>>, log |-> <<>>]).result.value :
     u \in RandomDraws}

\* C24: the results of A--B are exactly the integers from min(A,B) to
\* max(A,B), whichever of A and B is larger: every result lies in that
\* range, and every integer of the range is the result for some draw (for
\* ranges no wider than the number of distinct draws).
C24_GygaxExactRange ==
  IsGygax =>
    /\ Result.value \in Min(GygaxA, GygaxB) .. Max(GygaxA, GygaxB)
    /\ (Max(GygaxA, GygaxB) - Min(GygaxA, GygaxB) < RandRes)
         => GygaxOutcomes = Min(GygaxA, GygaxB) .. Max(GygaxA, GygaxB)

\* the same for A <= B only, which is what the code computes
C24_AscendingRange ==
  (IsGygax /\ GygaxA <= GygaxB) =>
    /\ Result.value \in GygaxA .. GygaxB
    /\ (GygaxB - GygaxA < RandRes) => GygaxOutcomes = GygaxA .. GygaxB

\* the statement is  NdS  without explosion or suffix
IsPlainRoll ==
  /\ EvalDone
  /\ TheStatement.kind = "RollOnceStmt"
  /\ TheStatement.e.kind = "GenericRollExpr"
  /\ ~ TheStatement.e.excl
  /\ IsNull(TheStatement.e.suffix)

RollN == IF IsNull(TheStatement.e.t1) THEN 1 ELSE Val(TheStatement.e.t1)

RollS == IF TheStatement.e.t2.percent THEN 100 ELSE TheStatement.e.t2.n

\* C25: for N in [1,100] and S in [2,100], NdS returns a Generic result with
\* exactly N dice, each showing a face from 1 to S, and a value in [N, N*S].
C25_PlainRollRange ==
  (IsPlainRoll /\ RollN \in 1 .. 100 /\ RollS \in 2 .. 100) =>
    /\ Result.rollType = "generic"
    /\ Len(Result.dice) = RollN
    /\ \A i \in 1 .. RollN : Result.dice[i].total \in 1 .. RollS
    /\ Result.value >= RollN
    /\ Result.value <= RollN * RollS
    /\ Result.value = SumTotals(Result.dice)

C25_Witness ==
  /\ IsPlainRoll
  /\ RollN = 3 /\ RollS = 3
  /\ Len(Result.dice) = 3
  /\ Result.value = 5
  /\ Result.dice[1].total = 1 /\ Result.dice[3].total = 2

\* ------------------------------------------------ InitiativeTracker
\* The deck of the model holds the cards of ModelRanks and ModelSuits and
\* both jokers.  A shuffled deck is the set of its cards: shuffleDeck can
\* produce every order, and the order is chosen when a card is popped.
MaxCommands == 4

SUITS == <<"Spades", "Hearts", "Diamonds", "Clubs">>

RANKS == <<"2", "3", "4", "5", "6", "7", "8", "9", "10", "J", "Q", "K", "A">>

SUIT_ORDER(suit) ==
  CASE suit = "Spades" -> 0 [] suit = "Hearts" -> 1 [] suit = "Diamonds" -> 2 [] suit = "Clubs" -> 3

getRankValue(rank) ==
  CASE rank = "2" -> 2 [] rank = "3" -> 3 [] rank = "4" -> 4 [] rank = "5" -> 5
    [] rank = "6" -> 6 [] rank = "7" -> 7 [] rank = "8" -> 8 [] rank = "9" -> 9
    [] rank = "10" -> 10 [] rank = "J" -> 11 [] rank = "Q" -> 12 [] rank = "K" -> 13
    [] rank = "A" -> 14 [] OTHER -> 0

Card(rank, suit) == [rank |-> rank, suit |-> suit, value |-> getRankValue(rank), isJoker |-> FALSE]

RedJoker == [rank |-> "Joker", suit |-> "Red", value |-> 14, isJoker |-> TRUE]

BlackJoker == [rank |-> "Joker", suit |-> "Black", value |-> 15, isJoker |-> TRUE]

\* the standard cards kept in the model: the king and ace of spades, the ace of hearts
InModel(rank, suit) == (rank = "A" /\ suit \in {"Spades", "Hearts"}) \/ (rank = "K" /\ suit = "Spades")

RECURSIVE standardCards(_, _)
standardCards(si, ri) ==
  IF si > Len(SUITS) THEN <<>>
  ELSE IF ri > Len(RANKS) THEN standardCards(si + 1, 1)
  ELSE (IF InModel(RANKS[ri], SUITS[si]) THEN <<Card(RANKS[ri], SUITS[si])>> ELSE <<>>)
       \o standardCards(si, ri + 1)

\* createDeck(includeJokers = true)
createDeck == standardCards(1, 1) \o <<RedJoker, BlackJoker>>

shuffleDeck(deck) == {deck[i] : i \in 1 .. Len(deck)}

compareCardsMutSuitsReversed(cardA, cardB) ==
  IF cardA.isJoker /\ ~ cardB.isJoker THEN 0 - 1
  ELSE IF ~ cardA.isJoker /\ cardB.isJoker THEN 1
  ELSE IF cardA.isJoker /\ cardB.isJoker THEN cardB.value - cardA.value
  ELSE IF cardA.value # cardB.value THEN cardB.value - cardA.value
  ELSE SUIT_ORDER(cardB.suit) - SUIT_ORDER(cardA.suit)

compareCards(cardA, cardB) ==
  IF cardA.isJoker /\ ~ cardB.isJoker THEN 0 - 1
  ELSE IF ~ cardA.isJoker /\ cardB.isJoker THEN 1
  ELSE IF cardA.isJoker /\ cardB.isJoker THEN cardB.value - cardA.value
  ELSE IF cardA.value # cardB.value THEN cardB.value - cardA.value
  ELSE SUIT_ORDER(cardA.suit) - SUIT_ORDER(cardB.suit)

\* drawnCards.sort(compareCards)
RECURSIVE insertCard(_, _)
insertCard(sorted, card) ==
  IF sorted = <<>> THEN <<card>>
  ELSE IF compareCards(card, Head(sorted)) < 0 THEN <<card>> \o sorted
  ELSE <<Head(sorted)>> \o insertCard(Tail(sorted), card)

RECURSIVE sortCards(_)
sortCards(cards) ==
  IF cards = <<>> THEN <<>>
  ELSE insertCard(sortCards(SubSeq(cards, 1, Len(cards) - 1)), cards[Len(cards)])

\* constructor()
newTracker ==
  [deck |-> shuffleDeck(createDeck), dealtCards |-> <<>>, round |-> 0, isActive |-> FALSE,
   characters |-> <<>>]

resetDeck(tr) == [tr EXCEPT !.deck = shuffleDeck(createDeck), !.dealtCards = <<>>]

start(tr) == resetDeck([tr EXCEPT !.isActive = TRUE, !.round = 0, !.characters = <<>>])

end(tr) == resetDeck([tr EXCEPT !.isActive = FALSE, !.round = 0, !.characters = <<>>])

newRound(tr) == [tr EXCEPT !.round = @ + 1]

characterEdgesOf(edges) ==
  [quick |-> edges.quick, levelHeaded |-> edges.level_headed,
   improvedLevelHeaded |-> edges.improved_level_headed]

cardsToDrawMutQuickOne(characterEdges) ==
  IF characterEdges.improvedLevelHeaded THEN 3
  ELSE IF characterEdges.levelHeaded THEN 2
  ELSE 1

cardsToDraw(characterEdges) ==
  IF characterEdges.improvedLevelHeaded THEN 3
  ELSE IF characterEdges.levelHeaded \/ characterEdges.quick THEN 2
  ELSE 1

\* for (i < cardsToraw) { if (deck.length === 0) resetDeck(); drawnCards.push(deck.pop()) }
\* the set of the outcomes [tr, drawnCards]
RECURSIVE drawCards(_, _, _)
drawCards(tr, drawnCards, n) ==
  IF n = 0 THEN {[tr |-> tr, drawnCards |-> drawnCards]}
  ELSE LET full == IF tr.deck = {} THEN resetDeck(tr) ELSE tr IN
         UNION {drawCards([full EXCEPT !.deck = @ \ {card}], Append(drawnCards, card), n - 1) :
                  card \in full.deck}

keptCardMutLast(sorted) == sorted[Len(sorted)]

keptCard(sorted) == sorted[1]

\* the body of the loop of dealCards for one name
dealCharacter(tr, name, edges, drawnCards) ==
  LET characterEdges == characterEdgesOf(edges)
      sorted == sortCards(drawnCards)
      kept == keptCard(sorted)
      droppedCards == Tail(sorted)
      result == [name |-> name, card |-> kept, drawnCards |-> sorted,
                 droppedCards |-> droppedCards, edges |-> characterEdges]
  IN  [tr |-> [tr EXCEPT
                 !.characters = (name :> [card |-> kept, edges |-> characterEdges,
                                          drawnCards |-> sorted, droppedCards |-> droppedCards]) @@ @,
                 !.dealtCards = Append(@, kept)],
       result |-> result]

\* dealCards(characterNames, edges) in an active fight: the set of the outcomes [tr, results]
RECURSIVE dealCards(_, _, _, _)
dealCards(tr, characterNames, edges, results) ==
  IF characterNames = <<>> THEN {[tr |-> tr, results |-> results]}
  ELSE UNION {LET d == dealCharacter(o.tr, Head(characterNames), edges, o.drawnCards) IN
                dealCards(d.tr, Tail(characterNames), edges, Append(results, d.result)) :
              o \in drawCards(tr, <<>>, cardsToDraw(characterEdgesOf(edges)))}

\* the commands of the model
CharacterNames == {<<"a">>, <<"b">>}

NoEdges == [quick |-> FALSE, level_headed |-> FALSE, improved_level_headed |-> FALSE]

EdgeOptions ==
  { NoEdges,
    [NoEdges EXCEPT !.quick = TRUE],
    [NoEdges EXCEPT !.level_headed = TRUE],
    [NoEdges EXCEPT !.improved_level_headed = TRUE],
    [NoEdges EXCEPT !.improved_level_headed = TRUE, !.quick = TRUE] }

\* the edges a command may name for a character list
EdgesFor(characterNames) == IF characterNames = <<"a">> THEN EdgeOptions ELSE {NoEdges}

Command(fn) == [fn |-> fn, seq |-> call.seq + 1, characterNames |-> <<>>, edges |-> NoEdges]

Start ==
  /\ call.fn \in {"new", "start", "end", "dealCards", "newRound"}
  /\ call.seq < MaxCommands
  /\ call' = Command("start")
  /\ tracker' = start(tracker)
  /\ returned' = Null
  /\ thrown' = Null
  /\ UNCHANGED <<random, visitors, variables, log, handler, interaction, acingVars>>

End ==
  /\ call.fn \in {"new", "start", "end", "dealCards", "newRound"}
  /\ call.seq < MaxCommands
  /\ call' = Command("end")
  /\ tracker' = end(tracker)
  /\ returned' = Null
  /\ thrown' = Null
  /\ UNCHANGED <<random, visitors, variables, log, handler, interaction, acingVars>>

DealCards ==
  /\ call.fn \in {"new", "start", "end", "dealCards", "newRound"}
  /\ call.seq < MaxCommands
  /\ \E characterNames \in CharacterNames : \E edges \in EdgesFor(characterNames) :
       /\ call' = [Command("dealCards") EXCEPT !.characterNames = characterNames, !.edges = edges]
       /\ IF ~ tracker.isActive
            THEN /\ thrown' = Some(Error("No active fight. Start a fight first.", 0))
                 /\ returned' = Null
                 /\ UNCHANGED tracker
            ELSE \E o \in dealCards(tracker, characterNames, edges, <<>>) :
                   /\ tracker' = o.tr
                   /\ returned' = Some(o.results)
                   /\ thrown' = Null
  /\ UNCHANGED <<random, visitors, variables, log, handler, interaction, acingVars>>

NewRound ==
  /\ call.fn \in {"new", "start", "end", "dealCards", "newRound"}
  /\ call.seq < MaxCommands
  /\ call' = Command("newRound")
  /\ IF ~ tracker.isActive
       THEN /\ thrown' = Some(Error("No active fight.", 0))
            /\ UNCHANGED tracker
       ELSE /\ tracker' = newRound(tracker)
            /\ thrown' = Null
  /\ returned' = Null
  /\ UNCHANGED <<random, visitors, variables, log, handler, interaction, acingVars>>

InitInitiative ==
  /\ call = [fn |-> "new", seq |-> 0, characterNames |-> <<>>, edges |-> NoEdges]
  /\ tracker = newTracker
  /\ handler = <<>>
  /\ interaction = <<>>
  /\ random = <<>>
  /\ returned = Null
  /\ thrown = Null
  /\ visitors = <<>>
  /\ variables = emptyMap
  /\ log = <<>>
  /\ sides = 1
  /\ maxAces = 0
  /\ pc = "done"
  /\ stack = <<>>
  /\ ret = 0
  /\ fpc = "done"
  /\ rolls = <<>>
  /\ total = 0
  /\ aces = 0

NextInitiative ==
  \/ Start
  \/ End
  \/ DealCards
  \/ NewRound

SpecInitiative == InitInitiative /\ [][NextInitiative]_vars

DealDone == call.fn = "dealCards" /\ ~ IsNull(returned)

\* the rank of a card in the initiative order: jokers first, the black one
\* before the red one, then the higher value, then spades, hearts,
\* diamonds, clubs
Strength(card) ==
  IF card.isJoker THEN 100 + card.value
  ELSE 4 * card.value + (CASE card.suit = "Spades" -> 3 [] card.suit = "Hearts" -> 2
                           [] card.suit = "Diamonds" -> 1 [] card.suit = "Clubs" -> 0)

ExpectedDraws(edges) ==
  IF edges.improved_level_headed THEN 3
  ELSE IF edges.level_headed \/ edges.quick THEN 2
  ELSE 1

CountIn(cards, card) == Cardinality({i \in 1 .. Len(cards) : cards[i] = card})

\* C26: dealCards draws 3 cards for a character with improved_level_headed,
\* else 2 with level_headed or quick, else 1; the card assigned to the
\* character is the best of those drawn under compareCards, and the rest
\* are reported as dropped.
C26_BestOfDrawn ==
  DealDone =>
    \A i \in 1 .. Len(Result) :
      LET r == Result[i] IN
        /\ Len(r.drawnCards) = ExpectedDraws(call.edges)
        /\ \E j \in 1 .. Len(r.drawnCards) : r.drawnCards[j] = r.card
        /\ \A j \in 1 .. Len(r.drawnCards) :
             /\ compareCards(r.card, r.drawnCards[j]) <= 0
             /\ Strength(r.card) >= Strength(r.drawnCards[j])
        /\ Len(r.droppedCards) = Len(r.drawnCards) - 1
        /\ \A j \in 1 .. Len(r.drawnCards) :
             CountIn(r.droppedCards, r.drawnCards[j])
               = CountIn(r.drawnCards, r.drawnCards[j]) - (IF r.drawnCards[j] = r.card THEN 1 ELSE 0)
        /\ tracker.characters[r.name].card = r.card
        /\ tracker.characters[r.name].droppedCards = r.droppedCards

C26_Witness ==
  /\ DealDone
  /\ call.edges.improved_level_headed
  /\ Len(Result[1].drawnCards) = 3
  /\ Result[1].card = Card("A", "Spades")
  /\ Result[1].droppedCards = <<Card("A", "Hearts"), Card("K", "Spades")>>

C26_WitnessQuick ==
  /\ DealDone
  /\ call.edges.quick /\ ~ call.edges.level_headed /\ ~ call.edges.improved_level_headed
  /\ Result[1].card = BlackJoker
  /\ Result[1].droppedCards = <<RedJoker>>

\* C27: newRound in an active fight automatically deals new cards to the
\* characters of the fight: the round that begins takes cards from the deck.
C27_NewRoundDeals ==
  [][(/\ call'.fn = "newRound"
      /\ call'.seq # call.seq
      /\ tracker.isActive
      /\ DOMAIN tracker.characters # {})
       => tracker'.deck # tracker.deck]_vars

\* what the code does: a new round only advances the round counter
C27_NewRoundKeepsCards ==
  [][(call'.fn = "newRound" /\ call'.seq # call.seq /\ tracker.isActive)
       => /\ tracker'.round = tracker.round + 1
          /\ tracker'.deck = tracker.deck
          /\ tracker'.characters = tracker.characters]_vars

\* C29: while a fight is active no card is held by two characters, whatever
\* dealCards calls were made, also after the deck ran out and was
\* reshuffled.
C29_NoCardHeldTwice ==
  (tracker # <<>> /\ tracker.isActive) =>
    \A n1, n2 \in DOMAIN tracker.characters :
      n1 # n2 => tracker.characters[n1].card # tracker.characters[n2].card

\* ------------------------------------------------ /roll: cmd_roll
\* cmd_roll is an async function: it runs up to its next await in one step,
\* and goes on when the awaited response settles or the timer fires.
\* interaction.calls is the history of the responses issued on the
\* interaction, each pending, resolved or rejected.
MaxGroups == 2

IsSpace(c) == c = " "

RECURSIVE trimStart(_)
trimStart(str) == IF str # <<>> /\ IsSpace(Head(str)) THEN trimStart(Tail(str)) ELSE str

RECURSIVE trimEnd(_)
trimEnd(str) ==
  IF str # <<>> /\ IsSpace(str[Len(str)]) THEN trimEnd(SubSeq(str, 1, Len(str) - 1)) ELSE str

trim(str) == trimStart(trimEnd(str))

EndsWith(str, word) ==
  /\ Len(str) >= Len(word)
  /\ lowerString(SubSeq(str, Len(str) - Len(word) + 1, Len(str))) = word

\* the index at which splitPattern /\/\s*(split|s)\s*$/i matches, 0 if it does not
splitFlagAt(expression) ==
  LET body == trimEnd(expression)
      word == IF EndsWith(body, <<"s", "p", "l", "i", "t">>) THEN 5
              ELSE IF EndsWith(body, <<"s">>) THEN 1 ELSE 0
      before == trimEnd(SubSeq(body, 1, Len(body) - word))
  IN  IF word > 0 /\ before # <<>> /\ before[Len(before)] = "/" THEN Len(before) ELSE 0

hasSplitFlag(expression) == splitFlagAt(expression) > 0

\* expression.replace(splitPattern, '').trim()
cleanExpression(expression) ==
  IF hasSplitFlag(expression) THEN trim(SubSeq(expression, 1, splitFlagAt(expression) - 1))
  ELSE trim(expression)

\* str.split('/')
RECURSIVE splitSlash(_, _)
splitSlash(str, current) ==
  IF str = <<>> THEN <<current>>
  ELSE IF Head(str) = "/" THEN <<current>> \o splitSlash(Tail(str), <<>>)
  ELSE splitSlash(Tail(str), Append(current, Head(str)))

RECURSIVE nonEmpty(_)
nonEmpty(parts) ==
  IF parts = <<>> THEN <<>>
  ELSE (IF Len(Head(parts)) > 0 THEN <<Head(parts)>> ELSE <<>>) \o nonEmpty(Tail(parts))

\* cleanExpression.split('/').map(group => group.trim()).filter(group => group.length > 0)
groupsOf(clean) ==
  LET parts == splitSlash(clean, <<>>) IN
    nonEmpty([i \in 1 .. Len(parts) |-> trim(parts[i])])

\* evaluateRoll(expression) for an expression that is no Savage Worlds
\* roll, with the draws left after it
\* (the one-element sets bind the normalized text and the outcome once
\* they are computed)
evaluateRoll(expression, tape) ==
  CHOOSE result \in
    {IF ~ IsNull(r.thrown)
       THEN [expression |-> expression, total |-> 0, error |-> Some(Val(r.thrown).message),
             random |-> r.random]
       ELSE [expression |-> expression, total |-> Val(r.returned).value, error |-> Null,
             random |-> r.random] :
     r \in UNION {{evaluateText(normalized, tape)} :
                     normalized \in {normalizeExpression(expression)}}} : TRUE

\* groups.map(group => evaluateRoll(group))
RECURSIVE evaluateRolls(_, _, _)
evaluateRolls(groups, tape, results) ==
  IF groups = <<>> THEN results
  ELSE CHOOSE all \in {evaluateRolls(Tail(groups), r.random, Append(results, r)) :
                         r \in {evaluateRoll(Head(groups), tape)}} : TRUE

Response(method, embed) == [method |-> method, embed |-> embed, status |-> "pending"]

\* sendInteractionResponse(interaction, embed, isFirst)
sendInteractionResponse(i, isFirst) ==
  IF isFirst THEN Response("reply", i) ELSE Response("followUp", i)

Pending == interaction.calls # <<>> /\ interaction.calls[Len(interaction.calls)].status = "pending"

Issue(response) == interaction' = [interaction EXCEPT !.calls = Append(@, response)]

SettleLast(status) ==
  [interaction EXCEPT !.calls[Len(interaction.calls)].status = status]

\* cmd_roll up to the first response it awaits.  The groups are evaluated
\* synchronously inside groups.map; awaiting Promise.all of their values
\* only defers the rest of rollExpressionRouter, which then issues the
\* first response.
CmdRoll ==
  /\ handler # <<>> /\ handler.pc = "start"
  /\ \E splitMode \in {hasSplitFlag(handler.expression)} :
     \E groups \in {groupsOf(cleanExpression(handler.expression))} :
     \E results \in {evaluateRolls(groups, random, <<>>)} :
         /\ handler' = [handler EXCEPT
                          !.splitMode = splitMode, !.groups = groups, !.results = results,
                          !.i = 0,
                          !.pc = IF Len(results) = 1 THEN "awaitReply"
                                 ELSE IF ~ splitMode THEN "awaitReply"
                                 ELSE IF Len(results) > 0 THEN "awaitSend" ELSE "done"]
         /\ IF Len(results) = 1 THEN Issue(Response("reply", 1))
            ELSE IF ~ splitMode THEN Issue(Response("reply", "combined"))
            ELSE IF Len(results) > 0 THEN Issue(sendInteractionResponse(1, TRUE))
            ELSE UNCHANGED interaction
  /\ UNCHANGED <<call, random, returned, thrown, visitors, variables, log, tracker, acingVars>>

\* catch (error) { await interaction.reply({ embeds: [createErrorEmbed(error.message)], ... }) }
CatchAndReply(settled) ==
  /\ interaction' = [settled EXCEPT !.calls = Append(@, Response("reply", "error"))]
  /\ handler' = [handler EXCEPT !.pc = "awaitError"]

\* the awaited reply of a single or combined result settles
ReplySettles ==
  /\ handler # <<>> /\ handler.pc = "awaitReply" /\ Pending
  /\ \/ /\ interaction' = SettleLast("resolved")
        /\ handler' = [handler EXCEPT !.pc = "done"]
     \/ CatchAndReply(SettleLast("rejected"))
  /\ UNCHANGED <<call, random, returned, thrown, visitors, variables, log, tracker, acingVars>>

\* the awaited send of the split loop settles
SendSettles ==
  /\ handler # <<>> /\ handler.pc = "awaitSend" /\ Pending
  /\ \/ /\ interaction' = SettleLast("resolved")
        /\ handler' = [handler EXCEPT
                         !.pc = IF handler.i < Len(handler.results) - 1 THEN "delay" ELSE "done",
                         !.i = IF handler.i < Len(handler.results) - 1 THEN @ ELSE @ + 1]
     \/ CatchAndReply(SettleLast("rejected"))
  /\ UNCHANGED <<call, random, returned, thrown, visitors, variables, log, tracker, acingVars>>

\* the 100 ms timer fires: i++ and the next sendInteractionResponse
TimerFires ==
  /\ handler # <<>> /\ handler.pc = "delay"
  /\ handler' = [handler EXCEPT !.i = @ + 1, !.pc = "awaitSend"]
  /\ Issue(sendInteractionResponse(handler.i + 2, FALSE))
  /\ UNCHANGED <<call, random, returned, thrown, visitors, variables, log, tracker, acingVars>>

\* the reply of the catch block settles; a rejection leaves cmd_roll
ErrorReplySettles ==
  /\ handler # <<>> /\ handler.pc = "awaitError" /\ Pending
  /\ \/ /\ interaction' = SettleLast("resolved")
        /\ UNCHANGED thrown
     \/ /\ interaction' = SettleLast("rejected")
        /\ thrown' = Some(Error("reply rejected", 0))
  /\ handler' = [handler EXCEPT !.pc = "done"]
  /\ UNCHANGED <<call, random, returned, visitors, variables, log, tracker, acingVars>>

\* the groups a command is written from
GroupTexts ==
  { <<"d", "3">>, <<"2">>,
    <<"d", "3", "[", "2", ":", "2", "]">>, <<"d", "3", "[", "3", ":", "]">>,
    <<"d", "3", "[", ":", "1", "]">>, <<"d", "3", "[", "1", ":", "2", "]">>,
    <<"(", "d", "3", ")", "[", "2", ":", "2", "]">>, <<"(", "d", "3", ")", "[", ":", "1", "]">>,
    <<"(", "d", "3", "+", "2", ")", "[", "1", ":", "3", "]">> }

SplitFlags == {<<>>, <<"/", "s">>, <<" ", "/", " ", "S", "p", "l", "i", "t", " ">>}

RECURSIVE Joined(_)
Joined(groups) ==
  IF groups = <<>> THEN <<>>
  ELSE IF Len(groups) = 1 THEN groups[1]
  ELSE groups[1] \o <<"/">> \o Joined(Tail(groups))

RollExpressions ==
  {Joined(groups) \o flag :
     groups \in UNION {[1 .. n -> GroupTexts] : n \in 0 .. MaxGroups}, flag \in SplitFlags}

InitRoll ==
  /\ handler \in {[pc |-> "start", expression |-> e, splitMode |-> FALSE, groups |-> <<>>,
                   results |-> <<>>, i |-> 0] : e \in RollExpressions}
  /\ interaction = [calls |-> <<>>]
  /\ random \in {<<u, v>> : u \in RandomDraws, v \in RandomDraws}
  /\ call = [fn |-> "cmd_roll"]
  /\ tracker = <<>>
  /\ returned = Null
  /\ thrown = Null
  /\ visitors = <<>>
  /\ variables = emptyMap
  /\ log = <<>>
  /\ sides = 1
  /\ maxAces = 0
  /\ pc = "done"
  /\ stack = <<>>
  /\ ret = 0
  /\ fpc = "done"
  /\ rolls = <<>>
  /\ total = 0
  /\ aces = 0

NextRoll ==
  \/ CmdRoll
  \/ ReplySettles
  \/ SendSettles
  \/ TimerFires
  \/ ErrorReplySettles

SpecRoll == InitRoll /\ [][NextRoll]_vars

RollStarted == handler # <<>> /\ handler.pc # "start"

IndexOf(str, c) ==
  IF \E i \in 1 .. Len(str) : str[i] = c
    THEN CHOOSE i \in 1 .. Len(str) : str[i] = c /\ \A j \in 1 .. (i - 1) : str[j] # c
    ELSE 0

\* the group is  E[min:max]  with one-digit bounds, either of which may be absent
IsBoundedText(g) == g # <<>> /\ g[Len(g)] = "]" /\ IndexOf(g, "[") > 1

BoundedE(g) == SubSeq(g, 1, IndexOf(g, "[") - 1)

BoundMin(g) == IF IsDigit(g[IndexOf(g, "[") + 1]) THEN Some(intOf(g[IndexOf(g, "[") + 1])) ELSE Null

BoundMax(g) == IF IsDigit(g[Len(g) - 1]) THEN Some(intOf(g[Len(g) - 1])) ELSE Null

FirstGroup == handler.groups[1]

FirstTotal == handler.results[1].total

\* the value of E alone through the same pipeline on the same draws
ValueOfE == evaluateRoll(BoundedE(FirstGroup), random).total

IsBoundedRoll ==
  /\ RollStarted
  /\ Len(handler.groups) >= 1
  /\ IsBoundedText(FirstGroup)
  /\ (~ IsNull(BoundMin(FirstGroup)) /\ ~ IsNull(BoundMax(FirstGroup)))
       => Val(BoundMin(FirstGroup)) <= Val(BoundMax(FirstGroup))

\* C23: for a bounded expression E[min:max] submitted through /roll
\* (normalize, then evaluate) the total v is >= min when min is given,
\* <= max when max is given, and equal to the value of E when that value is
\* within the bounds.
C23_BoundedThroughRoll ==
  IsBoundedRoll =>
    /\ IsNull(handler.results[1].error)
    /\ ~ IsNull(BoundMin(FirstGroup)) => FirstTotal >= Val(BoundMin(FirstGroup))
    /\ ~ IsNull(BoundMax(FirstGroup)) => FirstTotal <= Val(BoundMax(FirstGroup))
    /\ (/\ ~ IsNull(BoundMin(FirstGroup)) => ValueOfE >= Val(BoundMin(FirstGroup))
        /\ ~ IsNull(BoundMax(FirstGroup)) => ValueOfE <= Val(BoundMax(FirstGroup)))
         => FirstTotal = ValueOfE

\* the same for an E that normalizeExpression leaves alone
C23_BoundedWhenNotNormalized ==
  (IsBoundedRoll /\ normalizeExpression(FirstGroup) = FirstGroup) => C23_BoundedThroughRoll

Replies == {j \in 1 .. Len(interaction.calls) : interaction.calls[j].method = "reply"}

IsSplitRoll == RollStarted /\ handler.splitMode /\ Len(handler.groups) >= 2

\* C30: in /roll split mode with k >= 2 groups the responses are reply for
\* group 1, then followUp for groups 2..k in order, one per group, each
\* issued only after the one before it has completed, and
\* interaction.reply is never issued twice for one command, also when a
\* later send fails.
C30_SplitSends ==
  IsSplitRoll =>
    /\ Cardinality(Replies) <= 1
    /\ Len(interaction.calls) <= Len(handler.groups)
    /\ \A j \in 1 .. Len(interaction.calls) :
         /\ interaction.calls[j].embed = j
         /\ interaction.calls[j].method = (IF j = 1 THEN "reply" ELSE "followUp")
         /\ j > 1 => interaction.calls[j - 1].status = "resolved"
    /\ handler.pc = "done" => Len(interaction.calls) = Len(handler.groups)

\* the same as long as no send was rejected
C30_SplitSendsWithoutFailure ==
  (IsSplitRoll /\ \A j \in 1 .. Len(interaction.calls) : interaction.calls[j].status # "rejected")
    => C30_SplitSends

====
